---- MODULE Spec2Model ----
(***************************************************************************)
(* A model of the nfdump file decoder of rust-nfdump.                      *)
(*                                                                         *)
(*   Spec       the reader NfFileReaderV1 of src/src/lib.rs: open (new)    *)
(*              and the pull operation read_record over a byte source.     *)
(*   SpecCodec  the codec factory Decompressor::new of src/src/compress.rs *)
(*   SpecRecord the legacy Common Record decoder new_record of             *)
(*              src/src/record.rs                                          *)
(*                                                                         *)
(* Bytes are integers 0..255, byte strings are sequences.  Decoded         *)
(* integers are the little-endian value of their bytes; the byte strings   *)
(* of the inputs are chosen so that every decoded value stays below 2^31.  *)
(***************************************************************************)
EXTENDS Integers, Sequences, FiniteSets, TLC

VARIABLES
    reader,       \* R: the byte source: the file src describes, pos bytes read, rest unread
    pc,           \* "init" before new, "open" after it, "aborted" after a panic
    header,       \* NfFileReaderV1.header
    stat_record,  \* NfFileReaderV1.stat_record
    data_block,   \* NfFileReaderV1.data_block
    extensions,   \* NfFileReaderV1.extensions
    exporters,    \* NfFileReaderV1.exporters
    result,       \* what the last read_record call gave its caller
    hist,         \* history of the calls: the bytes the last call took and had at hand,
                  \* the raw ids of the last Extension Map, where block headers were read
    call,         \* arguments of the pure function under check
    ret           \* its return value, Pending before the call

vars == <<reader, pc, header, stat_record, data_block, extensions, exporters,
          result, hist, call, ret>>

readerVars == <<reader, pc, header, stat_record, data_block, extensions,
                exporters, result, hist>>

(***************************************************************************)
(* Bounds of the model.                                                    *)
(***************************************************************************)
MaxRecs == 3

MaxLen == 3

(***************************************************************************)
(* Program constants.                                                      *)
(***************************************************************************)
NFFILE_V1_HEADER_SIZE == 140

NFFILE_V1_STAT_RECORD_SIZE == 136

NFFILE_V1_DATA_HEADER_SIZE == 12

AF_INET == 2

AF_INET6 == 10

NFDUMP_COMPRESSION_TYPE_PLAIN == 3

NFDUMP_COMPRESSION_TYPE_LZ4 == 1

NFDUMP_COMPRESSION_TYPE_BZ2 == 2

Pending == [kind |-> "Pending"]

None == [kind |-> "None"]

Some(v) == [kind |-> "Some", v |-> v]

(***************************************************************************)
(* byteorder: little-endian integers.                                      *)
(***************************************************************************)
RECURSIVE LeValue(_)
\* ReadBytesExt::read_uN::<LittleEndian> on the bytes bs: least significant first
LeValue(bs) == IF bs = <<>> THEN 0 ELSE Head(bs) + 256 * LeValue(Tail(bs))

\* the value of the w bytes of d that follow the first off bytes
U(d, off, w) == LeValue(SubSeq(d, off + 1, off + w))

RECURSIVE LeBytes(_, _)
\* the w-byte little-endian form of v (used to build the input files)
LeBytes(v, w) == IF w = 0 THEN <<>> ELSE <<v % 256>> \o LeBytes(v \div 256, w - 1)

Zeros(n) == [i \in 1..n |-> 0]

RECURSIVE Concat(_)
Concat(ss) == IF ss = <<>> THEN <<>> ELSE Head(ss) \o Concat(Tail(ss))

\* x & (1 << b) != 0
Bit(x, b) == (x \div (2 ^ b)) % 2 = 1

Contains(s, x) == \E i \in 1..Len(s) : s[i] = x

(***************************************************************************)
(* The input files of Spec, built from their description.                  *)
(***************************************************************************)
NFFILE_MAGIC == 42252

\* a record: type id, total size, payload
Rec(rtype, payload) == LeBytes(rtype, 2) \o LeBytes(4 + Len(payload), 2) \o payload

\* an Extension Map record with the id list ids (zero is padding)
ExtMapRec(ids) ==
    Rec(2, LeBytes(1, 2) \o LeBytes(2 * Len(ids), 2)
           \o Concat([i \in 1..Len(ids) |-> LeBytes(ids[i], 2)]))

\* the bytes after the counters of a Common Record: 16-bit reads give
\* 17, 34, 51, 68 and 32-bit reads give other values
ExtTail == <<17, 0, 34, 0, 51, 0, 68, 0, 85, 0, 102, 0, 119, 0, 8, 0>>

\* a legacy Common Record with IPv4 or IPv6 addresses as flag bit 0 says,
\* a packet counter of pw bytes and a byte counter of bw bytes, followed by
\* ExtTail
CommonPayloadW(flags, pw, bw) ==
    LeBytes(flags, 2) \o LeBytes(1, 2) \o LeBytes(500, 2) \o LeBytes(900, 2)
    \o LeBytes(70000, 4) \o LeBytes(70060, 4) \o <<0, 27, 6, 0>>
    \o LeBytes(443, 2) \o LeBytes(51000, 2) \o LeBytes(3, 2) \o <<0, 1>>
    \o (IF Bit(flags, 0) THEN LeBytes(167772161, 16) \o LeBytes(167772162, 16)
                         ELSE LeBytes(167772161, 4) \o LeBytes(167772162, 4))
    \o LeBytes(1000, pw)
    \o LeBytes(150000, bw)
    \o ExtTail

\* the payload as lib.rs reads it: the packet counter is 8 bytes under flag
\* bit 1, the byte counter under flag bit 2
CommonPayload(flags) ==
    CommonPayloadW(flags, IF Bit(flags, 1) THEN 8 ELSE 4, IF Bit(flags, 2) THEN 8 ELSE 4)

\* the payload as record.rs reads it: both counters are 8 bytes under flag
\* bit 1
RecordPayload(flags) ==
    CommonPayloadW(flags, IF Bit(flags, 1) THEN 8 ELSE 4, IF Bit(flags, 1) THEN 8 ELSE 4)

ExporterPayload(sa) ==
    LeBytes(9, 4) \o LeBytes(0, 8) \o LeBytes(167772417, 4) \o LeBytes(0, 4)
    \o LeBytes(sa, 2) \o LeBytes(3, 2) \o LeBytes(77, 2)

\* the payload of a RecordV3 with two sub-extensions: IPv4 addresses (id 2)
\* and AS routing (id 7)
V3Fixture ==
    LeBytes(2, 2) \o <<1, 0>> \o LeBytes(3, 2) \o <<0, 9>>
    \o LeBytes(2, 2) \o LeBytes(12, 2) \o LeBytes(167772161, 4) \o LeBytes(167772162, 4)
    \o LeBytes(7, 2) \o LeBytes(12, 2) \o LeBytes(64512, 4) \o LeBytes(64513, 4)

\* the records the input files and blocks are made of, by name
RecordBytes(name) ==
    CASE name = "map46"    -> ExtMapRec(<<4, 0, 6>>)
      [] name = "map57"    -> ExtMapRec(<<5, 7>>)
      [] name = "map47"    -> ExtMapRec(<<4, 7>>)
      [] name = "exporter" -> Rec(7, ExporterPayload(AF_INET))
      [] name = "exporter6" -> Rec(7, ExporterPayload(AF_INET6))
      [] name = "common"   -> Rec(10, CommonPayload(0))
      [] name = "common2"  -> Rec(10, RecordPayload(2))
      [] name = "sampler"  -> Rec(9, LeBytes(5, 4) \o LeBytes(100, 4)
                                     \o LeBytes(1, 2) \o LeBytes(3, 2))
      [] name = "expstat"  -> Rec(8, LeBytes(1, 4) \o LeBytes(3, 4) \o LeBytes(0, 4)
                                     \o LeBytes(1000, 8) \o LeBytes(10, 8))
      [] name = "shortmap" -> Rec(2, <<1, 0>>)
      [] name = "size2"    -> LeBytes(10, 2) \o LeBytes(2, 2)
      [] name = "commoncut" -> Rec(10, SubSeq(CommonPayload(0), 1, 46))
      [] name = "ident"    -> Rec(32769, <<110, 102, 100>>)
      [] name = "stat"     -> Rec(32770, Concat([i \in 1..18 |-> LeBytes(100 + i, 8)]))
      [] name = "stat17"   -> Rec(32770, Concat([i \in 1..17 |-> LeBytes(100 + i, 8)]))
      [] name = "shortstat" -> Rec(32770, LeBytes(101, 8))
      [] name = "nbar"     -> Rec(12, <<1, 2, 3, 4>>)
      [] name = "v3"       -> Rec(11, V3Fixture)
      [] name = "v3short"  -> Rec(11, SubSeq(V3Fixture, 1, 20))

RecordNames ==
    {"map46", "map57", "map47", "exporter", "exporter6", "common", "common2",
     "commoncut",
     "sampler", "expstat", "shortmap", "size2"}

\* one data block: the 12-byte header and the records
BlockBytes(num_records, recs) ==
    LET body == Concat([i \in 1..Len(recs) |-> RecordBytes(recs[i])])
    IN  LeBytes(num_records, 4) \o LeBytes(Len(body), 4) \o LeBytes(2, 2)
        \o LeBytes(0, 2) \o body

\* one data block whose size counts four bytes of padding after the records
BlockBytesPadded(num_records, recs) ==
    LET body == Concat([i \in 1..Len(recs) |-> RecordBytes(recs[i])]) \o <<0, 0, 0, 0>>
    IN  LeBytes(num_records, 4) \o LeBytes(Len(body), 4) \o LeBytes(2, 2)
        \o LeBytes(0, 2) \o body

\* the blocks of the records recs: "one" block that declares them all, "over"
\* one that declares one more, "each" record in a block of its own, "empty" a
\* block of no records before the one block, "zero" a block that declares no
\* record and holds them all, "padded" a block with padding and an empty one
BodyBytes(layout, recs) ==
    CASE layout = "one"   -> BlockBytes(Len(recs), recs)
      [] layout = "over"  -> BlockBytes(Len(recs) + 1, recs)
      [] layout = "each"  -> Concat([i \in 1..Len(recs) |-> BlockBytes(1, <<recs[i]>>)])
      [] layout = "empty" -> BlockBytes(0, <<>>) \o BlockBytes(Len(recs), recs)
      [] layout = "zero"  -> BlockBytes(0, recs)
      [] layout = "padded" -> BlockBytesPadded(Len(recs), recs) \o BlockBytes(0, <<>>)

Layouts == {"one", "over", "each", "empty", "zero", "padded"}

\* the stat record number k: twenty different values
StatValues(k) ==
    [flows |-> 1000 * k + 1, bytes |-> 1000 * k + 2, packets |-> 1000 * k + 3,
     flows_tcp |-> 1000 * k + 4, flows_udp |-> 1000 * k + 5,
     flows_icmp |-> 1000 * k + 6, flows_other |-> 1000 * k + 7,
     bytes_tcp |-> 70000 * k + 8, bytes_udp |-> 70000 * k + 9,
     bytes_icmp |-> 70000 * k + 10, bytes_other |-> 70000 * k + 11,
     packets_tcp |-> 1000 * k + 12, packets_udp |-> 1000 * k + 13,
     packets_icmp |-> 1000 * k + 14, packets_other |-> 1000 * k + 15,
     first_seen |-> 1700000000 + k, last_seen |-> 1700000300 + k,
     msec_first |-> 100 + k, msec_last |-> 900 + k, sequence_failure |-> k]

StatBytes(v) ==
    LeBytes(v.flows, 8) \o LeBytes(v.bytes, 8) \o LeBytes(v.packets, 8)
    \o LeBytes(v.flows_tcp, 8) \o LeBytes(v.flows_udp, 8)
    \o LeBytes(v.flows_icmp, 8) \o LeBytes(v.flows_other, 8)
    \o LeBytes(v.bytes_tcp, 8) \o LeBytes(v.bytes_udp, 8)
    \o LeBytes(v.bytes_icmp, 8) \o LeBytes(v.bytes_other, 8)
    \o LeBytes(v.packets_tcp, 8) \o LeBytes(v.packets_udp, 8)
    \o LeBytes(v.packets_icmp, 8) \o LeBytes(v.packets_other, 8)
    \o LeBytes(v.first_seen, 4) \o LeBytes(v.last_seen, 4)
    \o LeBytes(v.msec_first, 2) \o LeBytes(v.msec_last, 2)
    \o LeBytes(v.sequence_failure, 4)

HeaderBytes(magic, version, num_blocks) ==
    LeBytes(magic, 2) \o LeBytes(version, 2) \o LeBytes(0, 4)
    \o LeBytes(num_blocks, 4) \o <<110, 102>> \o Zeros(126)

\* the file of the description fx, its last fx.cut bytes cut off
FileBytes(fx) ==
    LET all == HeaderBytes(fx.magic, fx.version, 1) \o StatBytes(StatValues(fx.stat))
               \o BodyBytes(fx.layout, fx.recs)
    IN  SubSeq(all, 1, IF fx.cut > Len(all) THEN 0 ELSE Len(all) - fx.cut)

\* the records the longer files are made of
CoreNames == {"map46", "map57", "exporter", "common"}

\* every sequence of up to two records, and the longer ones of core records
RecordSeqs ==
    UNION {[1..n -> RecordNames] : n \in 0..2}
    \cup UNION {[1..n -> CoreNames] : n \in 3..MaxRecs}

\* files with a good header and every body, whole or cut inside the last
\* record or its header
BodyFiles ==
    [magic : {NFFILE_MAGIC}, version : {1}, stat : {1}, layout : Layouts,
     recs : RecordSeqs, cut : {0, 3, 30}]

\* files with every header over one body
HeaderFiles ==
    [magic : {NFFILE_MAGIC, 4660}, version : {1, 2, 3}, stat : {1, 2},
     layout : {"one"}, recs : {<<"map46", "common">>}, cut : {0}]

\* files cut inside the stat record or the header
ShortFiles ==
    [magic : {NFFILE_MAGIC}, version : {1}, stat : {1}, layout : {"one"},
     recs : {<<>>}, cut : {13, 100, 148, 288}]

Files == BodyFiles \cup HeaderFiles \cup ShortFiles

(***************************************************************************)
(* std::io::Read::read_exact on the source r.  When fewer than n bytes are *)
(* left it fails with UnexpectedEof and it is unspecified how many bytes   *)
(* it has consumed: the default implementation (File, BufReader) drains    *)
(* the source, older Cursor and slice implementations leave the position.  *)
(* drain chooses between the two.                                          *)
(***************************************************************************)
read_exact(r, n, drain) ==
    IF n <= Len(r.rest)
    THEN [ok |-> TRUE, buf |-> SubSeq(r.rest, 1, n),
          r |-> [r EXCEPT !.rest = SubSeq(r.rest, n + 1, Len(r.rest)),
                          !.pos = r.pos + n]]
    ELSE [ok |-> FALSE, buf |-> <<>>,
          r |-> IF drain
                THEN [r EXCEPT !.rest = <<>>, !.pos = r.pos + Len(r.rest)]
                ELSE r]

(***************************************************************************)
(* Results of read_record as its caller sees them.                         *)
(***************************************************************************)
EndOfFile == [kind |-> "EOF"]

Ok(rec) == [kind |-> "Ok", rec |-> rec]

Err(e) == [kind |-> "Err", error |-> e]

\* an unwrap() of None or Err, an overflowing subtraction: the call aborts
Panic(where) == [kind |-> "Panic", at |-> where]

\* a u128 as four 32-bit limbs, most significant first
U128(d, off) == <<U(d, off + 12, 4), U(d, off + 8, 4), U(d, off + 4, 4), U(d, off, 4)>>

(***************************************************************************)
(* src/src/lib.rs: the header, the stat record and the block header.       *)
(***************************************************************************)
read_header(r, drain) ==
    LET x == read_exact(r, NFFILE_V1_HEADER_SIZE, drain)
    IN  IF x.ok
        THEN [r |-> x.r,
              v |-> Some([magic      |-> U(x.buf, 0, 2),
                          version    |-> U(x.buf, 2, 2),
                          flags      |-> U(x.buf, 4, 4),
                          num_blocks |-> U(x.buf, 8, 4),
                          ident      |-> SubSeq(x.buf, 13, 140)])]
        ELSE [r |-> x.r, v |-> None]

read_stat_record(r, drain) ==
    LET x == read_exact(r, NFFILE_V1_STAT_RECORD_SIZE, drain)
    IN  IF x.ok
        THEN [r |-> x.r,
              v |-> Some([flows            |-> U(x.buf, 0, 8),
                          bytes            |-> U(x.buf, 8, 8),
                          packets          |-> U(x.buf, 16, 8),
                          flows_tcp        |-> U(x.buf, 24, 8),
                          flows_udp        |-> U(x.buf, 32, 8),
                          flows_icmp       |-> U(x.buf, 40, 8),
                          flows_other      |-> U(x.buf, 48, 8),
                          bytes_tcp        |-> U(x.buf, 56, 8),
                          bytes_udp        |-> U(x.buf, 64, 8),
                          bytes_icmp       |-> U(x.buf, 72, 8),
                          bytes_other      |-> U(x.buf, 80, 8),
                          packets_tcp      |-> U(x.buf, 88, 8),
                          packets_udp      |-> U(x.buf, 96, 8),
                          packets_icmp     |-> U(x.buf, 104, 8),
                          packets_other    |-> U(x.buf, 112, 8),
                          first_seen       |-> U(x.buf, 120, 4),
                          last_seen        |-> U(x.buf, 124, 4),
                          msec_first       |-> U(x.buf, 128, 2),
                          msec_last        |-> U(x.buf, 130, 2),
                          sequence_failure |-> U(x.buf, 132, 4)])]
        ELSE [r |-> x.r, v |-> None]

read_data_block_header(r, drain) ==
    LET x == read_exact(r, NFFILE_V1_DATA_HEADER_SIZE, drain)
    IN  IF x.ok
        THEN [r |-> x.r,
              v |-> Some([num_records |-> U(x.buf, 0, 4),
                          size        |-> U(x.buf, 4, 4),
                          id          |-> U(x.buf, 8, 2),
                          flags       |-> U(x.buf, 10, 2),
                          record_num  |-> 0])]
        ELSE [r |-> x.r, v |-> None]

\* DataBlockHeaderV1 as NfFileReaderV1::new builds it
EmptyDataBlock ==
    [num_records |-> 0, size |-> 0, id |-> 0, flags |-> 0, record_num |-> 0]

(***************************************************************************)
(* src/src/nfx.rs                                                          *)
(***************************************************************************)
RECURSIVE ex_id_loop_keep_zero(_, _)
\* the loop of read_extension_map without its test for the padding id 0
ex_id_loop_keep_zero(d, p) ==
    IF p + 2 > Len(d) THEN <<>>
    ELSE <<U(d, p, 2)>> \o ex_id_loop_keep_zero(d, p + 2)

RECURSIVE ex_id_loop_stop_at_zero(_, _)
\* the loop of read_extension_map leaving at the first zero id (break for
\* continue)
ex_id_loop_stop_at_zero(d, p) ==
    IF p + 2 > Len(d) THEN <<>>
    ELSE LET id == U(d, p, 2)
         IN  IF id = 0 THEN <<>> ELSE <<id>> \o ex_id_loop_stop_at_zero(d, p + 2)

RECURSIVE ex_id_loop(_, _)
\* the while-let loop of read_extension_map from cursor position p
ex_id_loop(d, p) ==
    IF p + 2 > Len(d) THEN <<>>
    ELSE LET id == U(d, p, 2)
         IN  (IF id = 0 THEN <<>> ELSE <<id>>) \o ex_id_loop(d, p + 2)

read_extension_map(hdr, record_data) ==
    IF Len(record_data) < 4 THEN Panic("read_extension_map")
    ELSE [kind           |-> "ExtensionMap",
          header         |-> hdr,
          map_id         |-> U(record_data, 0, 2),
          extension_size |-> U(record_data, 2, 2),
          ex_id          |-> ex_id_loop(record_data, 4)]

(***************************************************************************)
(* src/src/exporter.rs                                                     *)
(***************************************************************************)
read_exporter_record(hdr, record_data) ==
    IF Len(record_data) < 26 THEN Panic("read_exporter_record")
    ELSE LET sa == U(record_data, 20, 2)
         IN  [kind      |-> "ExporterInfoRecordV1",
              header    |-> hdr,
              version   |-> U(record_data, 0, 4),
              v4_addr   |-> IF sa = AF_INET6 THEN None
                            ELSE Some(U(record_data, 12, 4)),
              v6_addr   |-> IF sa = AF_INET THEN None
                            ELSE Some(U128(record_data, 4)),
              sa_family |-> sa,
              sysid     |-> U(record_data, 22, 2),
              id        |-> U(record_data, 24, 2)]

read_samplerv0_record(hdr, record_data) ==
    IF Len(record_data) < 12 THEN Panic("read_samplerv0_record")
    ELSE [kind           |-> "SamplerV0Record",
          header         |-> hdr,
          id             |-> U(record_data, 0, 4),
          interval       |-> U(record_data, 4, 4),
          algorithm      |-> U(record_data, 8, 2),
          exporter_sysid |-> U(record_data, 10, 2)]

read_exporter_stats_record(hdr, record_data) ==
    IF Len(record_data) < 4 THEN Panic("read_exporter_stats_record")
    ELSE LET stat_count == U(record_data, 0, 4)
         IN  IF Len(record_data) < 4 + 24 * stat_count
             THEN Panic("read_exporter_stats_record")
             ELSE [kind       |-> "ExporterStatsRecord",
                   header     |-> hdr,
                   stat_count |-> stat_count,
                   stat       |-> [i \in 1..stat_count |->
                       [sysid            |-> U(record_data, 4 + 24 * (i - 1), 4),
                        sequence_failure |-> U(record_data, 8 + 24 * (i - 1), 4),
                        packets          |-> U(record_data, 12 + 24 * (i - 1), 8),
                        flows            |-> U(record_data, 20 + 24 * (i - 1), 8)]]]

(***************************************************************************)
(* src/src/lib.rs: the flow record read_record decodes in place for every  *)
(* type id other than 2, 7, 8 and 9.  Every field is read with `?`, so the *)
(* first read past the end of the payload makes the call return Err.       *)
(***************************************************************************)
\* width of input and of output under the active list ext (0: not read)
input_width(ext) == IF Contains(ext, 4) THEN 2 ELSE IF Contains(ext, 5) THEN 4 ELSE 0

\* width of src_as and of dst_as under the active list ext (0: not read)
as_width(ext) == IF Contains(ext, 6) THEN 2 ELSE IF Contains(ext, 7) THEN 4 ELSE 0

NfFileRecordV1(hdr, d, ext) ==
    IF Len(d) < 2 THEN Err("UnexpectedEof")
    ELSE
    LET flags == U(d, 0, 2)
        v6    == Bit(flags, 0)
        aw    == IF v6 THEN 16 ELSE 4
        pw    == IF Bit(flags, 1) THEN 8 ELSE 4
        bw    == IF Bit(flags, 2) THEN 8 ELSE 4
        iw    == input_width(ext)
        sw    == as_width(ext)
        oPkt  == 28 + 2 * aw
        oByt  == oPkt + pw
        oIn   == oByt + bw
        oSrc  == oIn + 2 * iw
        end   == oSrc + 2 * sw
    IN  IF Len(d) < end THEN Err("UnexpectedEof")
        ELSE Ok([kind            |-> "NfFileRecordV1",
                 head            |-> hdr,
                 flags           |-> flags,
                 ext_map         |-> U(d, 2, 2),
                 msec_first      |-> U(d, 4, 2),
                 msec_last       |-> U(d, 6, 2),
                 first           |-> U(d, 8, 4),
                 last            |-> U(d, 12, 4),
                 fwd_status      |-> U(d, 16, 1),
                 tcp_flags       |-> U(d, 17, 1),
                 prot            |-> U(d, 18, 1),
                 tos             |-> U(d, 19, 1),
                 src_port        |-> U(d, 20, 2),
                 dst_port        |-> U(d, 22, 2),
                 exporter_sysid  |-> U(d, 24, 2),
                 bi_flow_dir     |-> U(d, 26, 1),
                 flow_end_reason |-> U(d, 27, 1),
                 ip4_addr        |-> IF v6 THEN None
                                     ELSE Some([src_addr |-> U(d, 28, 4),
                                                dst_addr |-> U(d, 32, 4)]),
                 ip6_addr        |-> IF ~v6 THEN None
                                     ELSE Some([src_addr |-> U128(d, 28),
                                                dst_addr |-> U128(d, 44)]),
                 packets         |-> U(d, oPkt, pw),
                 bytes           |-> U(d, oByt, bw),
                 input           |-> IF iw = 0 THEN 0 ELSE U(d, oIn, iw),
                 output          |-> IF iw = 0 THEN 0 ELSE U(d, oIn + iw, iw),
                 src_as          |-> IF sw = 0 THEN 0 ELSE U(d, oSrc, sw),
                 dst_as          |-> IF sw = 0 THEN 0 ELSE U(d, oSrc + sw, sw)])

(***************************************************************************)
(* src/src/lib.rs: NfFileReaderV1::read_record.  self is the reader object *)
(* [reader, data_block, extensions, exporters]; the value is the object    *)
(* after the call and what the call gave its caller.                       *)
(***************************************************************************)
\* the match on the payload read (lib.rs 173-299), the payload being read
\* self.exporters.push with the new entry put in front
exporters_push_front(list, ex) == <<ex>> \o list

\* lib.rs 182: self.exporters.push(ex.clone())
exporters_push(list, ex) == Append(list, ex)

dispatch(self, hdr, record_data) ==
    CASE hdr.rtype = 9 ->
           LET rec == read_samplerv0_record(hdr, record_data)
           IN  [self |-> self,
                result |-> IF rec.kind = "Panic" THEN rec ELSE Ok(rec)]
      [] hdr.rtype = 7 ->
           LET exporter == read_exporter_record(hdr, record_data)
           IN  IF exporter.kind = "Panic" THEN [self |-> self, result |-> exporter]
               ELSE [self |-> [self EXCEPT !.exporters = exporters_push(@, exporter)],
                     result |-> Ok(exporter)]
      [] hdr.rtype = 2 ->
           LET extension_map == read_extension_map(hdr, record_data)
           IN  IF extension_map.kind = "Panic"
               THEN [self |-> self, result |-> extension_map]
               ELSE [self |-> [self EXCEPT !.extensions = extension_map.ex_id],
                     result |-> Ok(extension_map)]
      [] hdr.rtype = 8 ->
           LET rec == read_exporter_stats_record(hdr, record_data)
           IN  [self |-> self,
                result |-> IF rec.kind = "Panic" THEN rec ELSE Ok(rec)]
      [] OTHER ->
           [self |-> self,
            result |-> NfFileRecordV1(hdr, record_data, self.extensions)]

\* lib.rs 170 with the header's four bytes counted into the payload
payload_len_with_header(hdr) == hdr.size

\* lib.rs 170, block.rs 52: the bytes of the payload, header.size as usize - 4
payload_len(hdr) == hdr.size - 4

\* lib.rs 151-171: count the record, read its header and its payload
next_record(self, drain) ==
    LET s1 == [self EXCEPT !.data_block.record_num = @ + 1]
        rh == read_exact(s1.reader, 4, drain)
        s2 == [s1 EXCEPT !.reader = rh.r]
    IN  IF ~rh.ok THEN [self |-> s2, result |-> Panic("record_header.unwrap")]
        ELSE
        LET hdr == [rtype |-> U(rh.buf, 0, 2), size |-> U(rh.buf, 2, 2)]
        IN  IF hdr.size < 4 THEN [self |-> s2, result |-> Panic("size - 4")]
            ELSE
            LET rd == read_exact(s2.reader, payload_len(hdr), drain)
                s3 == [s2 EXCEPT !.reader = rd.r]
            IN  IF ~rd.ok THEN [self |-> s3, result |-> EndOfFile]
                ELSE dispatch(s3, hdr, rd.buf)

read_record(self, drain) ==
    IF \/ self.data_block.record_num = 0
       \/ self.data_block.record_num = self.data_block.num_records
    THEN LET db == read_data_block_header(self.reader, drain)
         IN  IF db.v = None
             THEN [self |-> [self EXCEPT !.reader = db.r], result |-> EndOfFile]
             ELSE next_record([self EXCEPT !.reader = db.r,
                                           !.data_block = db.v.v], drain)
    ELSE next_record(self, drain)

\* NfFileReaderV1::new without the read of the stat record: the stat record
\* is left at its default and the source at the end of the header
new_without_stat_record(r, drain) ==
    LET h == read_header(r, drain)
    IN  IF h.v = None THEN [r |-> h.r, result |-> Panic("read_header.unwrap")]
        ELSE [r |-> h.r,
              result |-> Ok([header      |-> h.v.v,
                             stat_record |-> [f \in DOMAIN StatValues(0) |-> 0],
                             data_block  |-> EmptyDataBlock,
                             extensions  |-> <<>>,
                             exporters   |-> <<>>])]

\* lib.rs 121-140: NfFileReaderV1::new; both unwrap().unwrap() abort on a
\* source shorter than the header and the stat record
new(r, drain) ==
    LET h == read_header(r, drain)
    IN  IF h.v = None THEN [r |-> h.r, result |-> Panic("read_header.unwrap")]
        ELSE
        LET st == read_stat_record(h.r, drain)
        IN  IF st.v = None
            THEN [r |-> st.r, result |-> Panic("read_stat_record.unwrap")]
            ELSE [r |-> st.r,
                  result |-> Ok([header      |-> h.v.v,
                                 stat_record |-> st.v.v,
                                 data_block  |-> EmptyDataBlock,
                                 extensions  |-> <<>>,
                                 exporters   |-> <<>>])]

(***************************************************************************)
(* Spec: open a file, then pull records.                                   *)
(***************************************************************************)
NoCall == [kind |-> "NoCall"]

Init ==
    /\ \E fx \in Files : reader = [src |-> fx, pos |-> 0, rest |-> FileBytes(fx)]
    /\ hist = [lastMap |-> <<>>, taken |-> <<>>, avail |-> 0, tookBlock |-> FALSE,
               blockAt |-> -1, expectAt |-> -1, recHdr |-> None]
    /\ pc = "init"
    /\ header = None
    /\ stat_record = None
    /\ data_block = None
    /\ extensions = <<>>
    /\ exporters = <<>>
    /\ result = Pending
    /\ call = NoCall
    /\ ret = Pending

\* NfFileReaderV1::new(reader)
Open ==
    /\ pc = "init"
    /\ \E drain \in BOOLEAN : \E o \in {new(reader, drain)} :
              /\ reader' = o.r
              /\ IF o.result.kind = "Panic"
                 THEN /\ pc' = "aborted"
                      /\ result' = o.result
                      /\ UNCHANGED <<header, stat_record, data_block, extensions,
                                     exporters>>
                 ELSE /\ pc' = "open"
                      /\ header' = o.result.rec.header
                      /\ stat_record' = o.result.rec.stat_record
                      /\ data_block' = o.result.rec.data_block
                      /\ extensions' = o.result.rec.extensions
                      /\ exporters' = o.result.rec.exporters
                      /\ UNCHANGED result
    /\ UNCHANGED <<hist, call, ret>>

\* the u16 values of an Extension Map payload after map_id and extension_size
RECURSIVE RawIds(_)
RawIds(d) == IF Len(d) < 2 THEN <<>> ELSE <<d[1] + 256 * d[2]>> \o RawIds(SubSeq(d, 3, Len(d)))

\* reader.read_record()
ReadRecord ==
    /\ pc = "open"
    /\ \E drain \in BOOLEAN :
       \E o \in {read_record([reader |-> reader, data_block |-> data_block,
                              extensions |-> extensions, exporters |-> exporters],
                             drain)} :
       \* the bytes this call took from the source
       \E taken \in {SubSeq(reader.rest, 1,
                             Len(reader.rest) - Len(o.self.reader.rest))} :
          /\ reader' = o.self.reader
          /\ data_block' = o.self.data_block
          /\ extensions' = o.self.extensions
          /\ exporters' = o.self.exporters
          /\ result' = o.result
          /\ pc' = IF o.result.kind = "Panic" THEN "aborted" ELSE "open"
          /\ hist' =
                LET \* the call fetched a block header and got one
                    fetched == /\ \/ data_block.record_num = 0
                                  \/ data_block.record_num = data_block.num_records
                               /\ Len(reader.rest) >= NFFILE_V1_DATA_HEADER_SIZE
                    \* the call had no block header to fetch
                    inBlock == /\ data_block.record_num # 0
                               /\ data_block.record_num # data_block.num_records
                    \* where the record header starts in the bytes taken
                    off     == IF fetched THEN NFFILE_V1_DATA_HEADER_SIZE ELSE 0
                IN  [lastMap   |-> IF /\ o.result.kind = "Ok"
                                      /\ o.result.rec.kind = "ExtensionMap"
                                   THEN RawIds(SubSeq(taken,
                                          Len(taken) - o.result.rec.header.size + 9,
                                          Len(taken)))
                                   ELSE hist.lastMap,
                     taken     |-> taken,
                     avail     |-> Len(reader.rest),
                     tookBlock |-> fetched,
                     blockAt   |-> IF fetched THEN reader.pos ELSE hist.blockAt,
                     expectAt  |-> IF ~fetched THEN hist.expectAt
                                   ELSE IF hist.blockAt < 0
                                        THEN NFFILE_V1_HEADER_SIZE
                                             + NFFILE_V1_STAT_RECORD_SIZE
                                        ELSE hist.blockAt + NFFILE_V1_DATA_HEADER_SIZE
                                             + data_block.size,
                     \* the record header the call obtained, if it obtained one
                     recHdr    |-> IF /\ fetched \/ inBlock
                                      /\ Len(reader.rest) >= off + 4
                                   THEN Some([rtype |-> U(reader.rest, off, 2),
                                              size  |-> U(reader.rest, off + 2, 2)])
                                   ELSE None]
    /\ UNCHANGED <<header, stat_record, call, ret>>

Next == Open \/ ReadRecord

Spec == Init /\ [][Next]_vars

(***************************************************************************)
(* Claims about the reader, checked under Spec.                            *)
(***************************************************************************)
\* the payload of the record the last call read
LastPayload ==
    SubSeq(hist.taken, Len(hist.taken) - result.rec.head.size + 5, Len(hist.taken))

NonZero(ids) == SelectSeq(ids, LAMBDA id : id # 0)

\* C1: once read_record has reported end-of-file, the next call reports
\* end-of-file too: it returns no record, no error and does not abort.
C1_EndOfFileIsFinal == [][result.kind = "EOF" => result'.kind = "EOF"]_vars

\* C2: every result of read_record that is not end-of-file is a flow record;
\* an Extension Map or Exporter Info record is never handed to the caller.
C2_OnlyFlowRecordsReturned ==
    result.kind = "Ok" => result.rec.kind = "NfFileRecordV1"

\* C3: the active extension-id list is the non-zero id list of the Extension
\* Map record read last (empty before the first), only reading an Extension
\* Map record changes it, and a Common Record is decoded against it: its
\* input/output and src_as/dst_as have the widths the list in force gives.
C3_ActiveExtensionList ==
    /\ [](pc = "open" => extensions = NonZero(hist.lastMap))
    /\ [][extensions' # extensions
            => result'.kind = "Ok" /\ result'.rec.kind = "ExtensionMap"]_vars
    /\ [](/\ result.kind = "Ok"
          /\ result.rec.kind = "NfFileRecordV1"
          /\ LastPayload = CommonPayload(0)
          => LET ids == NonZero(hist.lastMap)
                 in16 == Contains(ids, 4)
                 in32 == ~in16 /\ Contains(ids, 5)
                 as16 == Contains(ids, 6)
                 as32 == ~as16 /\ Contains(ids, 7)
                 o == IF in16 THEN 4 ELSE IF in32 THEN 8 ELSE 0
             IN  /\ result.rec.input =
                       (IF in16 THEN 17 ELSE IF in32 THEN 17 + 65536 * 34 ELSE 0)
                 /\ result.rec.output =
                       (IF in16 THEN 34 ELSE IF in32 THEN 51 + 65536 * 68 ELSE 0)
                 /\ result.rec.src_as =
                       (IF as16 THEN U(ExtTail, o, 2)
                        ELSE IF as32 THEN U(ExtTail, o, 4) ELSE 0)
                 /\ result.rec.dst_as =
                       (IF as16 THEN U(ExtTail, o + 2, 2)
                        ELSE IF as32 THEN U(ExtTail, o + 4, 4) ELSE 0))

\* C3 witness: the map [5,7] has replaced the map [4,6] read before it and
\* the Common Record after them is decoded with 32-bit fields
C3_Witness ==
    /\ pc = "open"
    /\ reader.src.recs = <<"map46", "map57", "common">>
    /\ hist.lastMap = <<5, 7>>
    /\ extensions = <<5, 7>>
    /\ result.kind = "Ok"
    /\ result.rec.kind = "NfFileRecordV1"
    /\ result.rec.input = 17 + 65536 * 34
    /\ result.rec.dst_as = 119 + 65536 * 8

\* C4: a reader exists only for a source that starts with the magic 0xa50c.
C4_MagicChecked == pc = "open" => header.magic = NFFILE_MAGIC

\* C5: a reader exists, and records are decoded, only for a source whose
\* version field is 1 or 2.
C5_VersionChecked ==
    pc = "open" /\ header.magic = NFFILE_MAGIC => header.version \in {1, 2}

\* C6: right after open of a version-1 file, before any read_record call,
\* the stat record holds the values written in the 136 bytes after the
\* 140-byte header and the source stands at offset 276.
C6_StatRecordAtOpen ==
    pc = "open" /\ result = Pending /\ reader.src.version = 1
    => /\ stat_record = StatValues(reader.src.stat)
       /\ reader.pos = 276

\* C6 witness: a version-1 file with the second stat record has been opened
C6_Witness ==
    /\ pc = "open"
    /\ header.magic = NFFILE_MAGIC
    /\ result = Pending
    /\ reader.src.version = 1
    /\ reader.src.stat = 2
    /\ stat_record.flows = 2001
    /\ stat_record.sequence_failure = 2
    /\ reader.pos = 276

\* C11: flag bit 0x02 alone gives the width of both counters: a Common
\* Record with flags = 0x02, whose packet count and byte count are both 64
\* bits wide, decodes to these counts, and the fields after them are read
\* where they stand (a 16-bit input under id 4, a 32-bit src_as under id 7).
C11_CounterWidths ==
    /\ result.kind = "Ok"
    /\ result.rec.kind = "NfFileRecordV1"
    /\ LastPayload = RecordPayload(2)
    => /\ result.rec.packets = 1000
       /\ result.rec.bytes = 150000
       /\ Contains(extensions, 4) => result.rec.input = 17 /\ result.rec.output = 34
       /\ extensions = <<4, 7>> => result.rec.src_as = 51 + 65536 * 68

\* C25: a call that reads an Exporter Info record (type 7) and returns it
\* appends that record to the exporter list; every other call, and opening
\* the file, leaves the list as it is.
C25_ExporterList ==
    [][exporters' =
         IF /\ hist'.recHdr # None
            /\ hist'.recHdr.v.rtype = 7
            /\ result'.kind = "Ok"
         THEN Append(exporters, result'.rec)
         ELSE exporters]_vars

\* two Exporter Info records were read, the IPv4 one before the IPv6 one,
\* and the list holds them in that order
C25_Witness ==
    /\ pc = "open"
    /\ reader.src.recs = <<"exporter", "exporter6">>
    /\ Len(exporters) = 2
    /\ exporters[1].sa_family = AF_INET
    /\ exporters[2].sa_family = AF_INET6
    /\ result = Ok(exporters[2])

\* C26: a record header that declares a size below 4 is rejected: the call
\* returns an error value or end-of-file, it does not abort.
C26_SizeBelowFourRejected ==
    hist.recHdr # None /\ hist.recHdr.v.size < 4
    => pc = "open" /\ result.kind \in {"Err", "EOF"}

\* C27: every call of read_record that does not report end-of-file takes at
\* least 4 bytes from the source, so that on a finite source the calls that
\* do not report end-of-file are finitely many and end-of-file comes.
C27_ProgressUntilEndOfFile ==
    [][pc = "open" /\ result'.kind # "EOF"
       => /\ pc' = "open"
          /\ Len(reader.rest) - Len(reader'.rest) >= 4]_vars

\* the bytes of the last call that follow the block header it fetched
LastRecordBytes ==
    SubSeq(hist.taken,
           IF hist.tookBlock THEN NFFILE_V1_DATA_HEADER_SIZE + 1 ELSE 1,
           Len(hist.taken))

\* C14: a record is returned only while the records read from the current
\* block do not exceed the block's declared record count; a block declaring
\* 0 records yields none.
C14_RecordCountBound ==
    pc = "open" /\ result.kind = "Ok"
    => data_block.record_num <= data_block.num_records

\* C15: a Common Record whose payload ends before an optional field is still
\* returned as a record, the field that could not be read left absent.
C15_OptionalReadFailure ==
    /\ pc = "open"
    /\ LastRecordBytes = RecordBytes("commoncut")
    => /\ result.kind = "Ok"
       /\ result.rec.kind = "NfFileRecordV1"

\* C16: read_record never aborts: whatever it meets, the reader stays usable
\* and the call returns a record, an error value or end-of-file.
C16_NeverAborts == [][pc = "open" => pc' # "aborted"]_vars

\* C18: every block header is read where the previous block ends, at the
\* previous block's start plus 12 plus its declared size (the first one right
\* after the file header and the stat record).
C18_BlockStride == hist.tookBlock => hist.blockAt = hist.expectAt

\* C19 as stated: every call that obtains a full record header advances the
\* source by exactly the declared size of that record.
C19_AdvanceBySize ==
    hist.recHdr # None => Len(LastRecordBytes) = hist.recHdr.v.size

\* C19: a call that obtains a record header declaring at least its own four
\* bytes, with the whole record present in the source, advances the source
\* by exactly the declared size, whatever the type id and the outcome.
C19_AdvanceBySizeWhenPresent ==
    /\ hist.recHdr # None
    /\ hist.recHdr.v.size >= 4
    /\ hist.avail >= Len(hist.taken) - Len(LastRecordBytes) + hist.recHdr.v.size
    => Len(LastRecordBytes) = hist.recHdr.v.size

\* a call met a Common Record it could not decode and returned an error
\* value, having advanced by the declared size
C19_Witness ==
    /\ hist.recHdr # None
    /\ hist.recHdr.v.size >= 4
    /\ Len(LastRecordBytes) = hist.recHdr.v.size
    /\ result.kind = "Err"
    /\ hist.recHdr.v.rtype = 10

(***************************************************************************)
(* src/src/compress.rs: the codec factory Decompressor::new.               *)
(***************************************************************************)
\* Cursor::new(v)
Cursor(v) == [inner |-> v, pos |-> 0]

RECURSIVE read_integer(_, _)
\* lz4_flex: a length above 14 goes on in the bytes at ip (1-based), each
\* added, up to and with the first byte below 255
read_integer(input, ip) ==
    IF ip > Len(input) THEN [ok |-> FALSE, n |-> 0, ip |-> ip]
    ELSE IF input[ip] = 255
         THEN LET more == read_integer(input, ip + 1)
              IN  [more EXCEPT !.n = @ + 255]
         ELSE [ok |-> TRUE, n |-> input[ip], ip |-> ip + 1]

RECURSIVE duplicate(_, _, _)
\* lz4_flex: copy n bytes from offset bytes back, one by one (they may overlap)
duplicate(out, offset, n) ==
    IF n = 0 THEN out
    ELSE duplicate(Append(out, out[Len(out) + 1 - offset]), offset, n - 1)

RECURSIVE decompress_loop(_, _, _)
\* lz4_flex::block: one sequence after the other: token, literals, and unless
\* the input ends there, a 2-byte offset and a match of 4 bytes or more
decompress_loop(input, ip, out) ==
    IF ip > Len(input) THEN [ok |-> FALSE, out |-> out]
    ELSE
    LET token == input[ip]
        lit   == IF token \div 16 = 15
                 THEN LET more == read_integer(input, ip + 1)
                      IN  [more EXCEPT !.n = @ + 15]
                 ELSE [ok |-> TRUE, n |-> token \div 16, ip |-> ip + 1]
    IN  IF ~lit.ok \/ lit.n > Len(input) - (lit.ip - 1)
        THEN [ok |-> FALSE, out |-> out]
        ELSE
        LET out1 == out \o SubSeq(input, lit.ip, lit.ip + lit.n - 1)
            mp   == lit.ip + lit.n
        IN  IF mp > Len(input) THEN [ok |-> TRUE, out |-> out1]
            ELSE IF mp + 1 > Len(input) THEN [ok |-> FALSE, out |-> out1]
            ELSE
            LET offset == input[mp] + 256 * input[mp + 1]
                mat    == IF token % 16 = 15
                          THEN LET more == read_integer(input, mp + 2)
                               IN  [more EXCEPT !.n = @ + 19]
                          ELSE [ok |-> TRUE, n |-> 4 + (token % 16), ip |-> mp + 2]
            IN  IF ~mat.ok \/ offset = 0 \/ offset > Len(out1)
                THEN [ok |-> FALSE, out |-> out1]
                ELSE decompress_loop(input, mat.ip, duplicate(out1, offset, mat.n))

\* lz4_flex::block::decompress_into(&data, &mut out): the bytes written, or
\* an error; no input of the model comes near the BUFSIZE bytes of out
decompress_into(data) ==
    IF data = <<>> THEN [ok |-> FALSE, out |-> <<>>]
    ELSE decompress_loop(data, 1, <<>>)

\* compress.rs 55-74: an error of the decoder counts as size 0, and size 0
\* is an error
Lz4Decompressor_new(data) ==
    LET dec  == decompress_into(data)
        size == IF dec.ok THEN Len(dec.out) ELSE 0
    IN  IF size >= 1
        THEN Ok([kind |-> "Lz4", d |-> Cursor(SubSeq(dec.out, 1, size))])
        ELSE Err([kind |-> "InvalidData", msg |-> "Lz4 decompression failed"])

\* compress.rs 87-98: the BzDecoder is made over the bytes, nothing is
\* decoded before the first read
Bz2Decompressor_new(data) == Ok([kind |-> "Bz2", d |-> Cursor(data)])

\* compress.rs 100-114
PlainDecompressor_new(data) == Ok([kind |-> "Plain", d |-> Cursor(data)])

\* compress.rs 20-35 with a default arm that passes the bytes through
Decompressor_new_default_plain(dtype, data) ==
    CASE dtype = NFDUMP_COMPRESSION_TYPE_LZ4   -> Lz4Decompressor_new(data)
      [] dtype = NFDUMP_COMPRESSION_TYPE_BZ2   -> Bz2Decompressor_new(data)
      [] OTHER                                 -> PlainDecompressor_new(data)

\* compress.rs 20-35: Decompressor::new(dtype, data)
Decompressor_new(dtype, data) ==
    CASE dtype = NFDUMP_COMPRESSION_TYPE_LZ4   -> Lz4Decompressor_new(data)
      [] dtype = NFDUMP_COMPRESSION_TYPE_BZ2   -> Bz2Decompressor_new(data)
      [] dtype = NFDUMP_COMPRESSION_TYPE_PLAIN -> PlainDecompressor_new(data)
      [] OTHER -> Err([kind |-> "InvalidData", msg |-> "Unsupported compression"])

\* Read for Decompressor on a Plain or Lz4 stream, read to its end
read_to_end(stream) == SubSeq(stream.d.inner, stream.d.pos + 1, Len(stream.d.inner))

(***************************************************************************)
(* SpecCodec: one call of Decompressor::new on an id and a byte string.    *)
(***************************************************************************)
\* the bytes the strings are made of: an LZ4 token of no literal, a token of
\* one literal, and a byte that is a long literal run as a token
Bytes == {0, 16, 171}

ByteStrings == UNION {[1..n -> Bytes] : n \in 0..MaxLen}

\* the token and the length bytes of a run of n literals
LiteralToken(n) ==
    IF n < 15 THEN <<16 * n>> ELSE <<240>> \o [i \in 1..((n - 15) \div 255) |-> 255]
                                       \o <<(n - 15) % 255>>

\* the LZ4 block of b that lz4_flex::block::compress writes for a b too
\* short to hold a match: one run of literals
Lz4Compress(b) == LiteralToken(Len(b)) \o b

\* an LZ4 block with a match: 7, four more 7 copied from one back, 1 2 3 4 5
Lz4MatchBlock == <<16, 7, 1, 0, 80, 1, 2, 3, 4, 5>>

Lz4MatchPlain == <<7, 7, 7, 7, 7, 1, 2, 3, 4, 5>>

\* the calls: every id of a u8, every string as it is and as an LZ4 block
CodecCalls ==
    [dtype : 0..255, b : ByteStrings, form : {"raw", "lz4"}]
    \cup [dtype : 0..255, b : {Lz4MatchPlain}, form : {"lz4match"}]

\* the bytes handed to Decompressor::new in the call c
CallData(c) ==
    CASE c.form = "raw"      -> c.b
      [] c.form = "lz4"      -> Lz4Compress(c.b)
      [] c.form = "lz4match" -> Lz4MatchBlock

InitCodec ==
    /\ call \in CodecCalls
    /\ ret = Pending
    /\ pc = "codec"
    /\ reader = None
    /\ header = None
    /\ stat_record = None
    /\ data_block = None
    /\ extensions = <<>>
    /\ exporters = <<>>
    /\ result = Pending
    /\ hist = None

\* Decompressor::new(call.dtype, data)
Decompress ==
    /\ pc = "codec"
    /\ ret = Pending
    /\ ret' = Decompressor_new(call.dtype, CallData(call))
    /\ UNCHANGED <<call, readerVars>>

NextCodec == Decompress

SpecCodec == InitCodec /\ [][NextCodec]_vars

(***************************************************************************)
(* Claims about the codec factory, checked under SpecCodec.                *)
(***************************************************************************)
\* the codec the id stands for in the file format as documented
CodecOfId(id) ==
    CASE id = 0 -> "Plain"
      [] id = 1 -> "Lzo"
      [] id = 2 -> "Bz2"
      [] id = 3 -> "Lz4"
      [] id = 4 -> "Zstd"

\* C7: an id from 0 to 4 gives a stream of its codec: 0 uncompressed, 1 LZO,
\* 2 BZ2, 3 LZ4, 4 Zstd; the stream of id 0 yields the input bytes unchanged
\* and the stream of id 3 yields the LZ4-decoded bytes.
C7_CodecIds ==
    /\ ret # Pending
    /\ call.dtype \in 0..4
    /\ call.dtype = 3 => call.form # "raw" /\ call.b # <<>>
    => /\ ret.kind = "Ok"
       /\ ret.rec.kind = CodecOfId(call.dtype)
       /\ call.dtype = 0 => read_to_end(ret.rec) = CallData(call)
       /\ call.dtype = 3 => read_to_end(ret.rec) = call.b

\* C8: an id outside 0..4 gives the error "Unsupported compression" and no
\* stream, whatever the bytes are.
C8_UnsupportedIdRejected ==
    ret # Pending /\ call.dtype \notin 0..4
    => ret = Err([kind |-> "InvalidData", msg |-> "Unsupported compression"])

\* C8 witness: id 200 with bytes that are a good LZ4 block has been rejected
C8_Witness ==
    /\ call.dtype = 200
    /\ call.form = "lz4"
    /\ call.b = <<171, 16>>
    /\ ret.kind = "Err"
    /\ ret.error.msg = "Unsupported compression"

\* C9: for every codec with a compressor at hand (uncompressed, LZ4) and
\* every byte string b, the empty one too, the stream made from the
\* compressed form of b yields exactly b; for the empty b the call gives an
\* empty stream, not an error.
C9_RoundTrip ==
    /\ ret # Pending
    /\ \/ call.dtype = NFDUMP_COMPRESSION_TYPE_PLAIN /\ call.form = "raw"
       \/ call.dtype = NFDUMP_COMPRESSION_TYPE_LZ4 /\ call.form # "raw"
    => /\ ret.kind = "Ok"
       /\ read_to_end(ret.rec) = call.b

(***************************************************************************)
(* src/src/record.rs: the legacy Common Record decoder new_record.  A      *)
(* cursor is [inner, pos]; a read past the end fails, and drain says where *)
(* the failed read leaves the position (at the end, or where it was).      *)
(***************************************************************************)
\* cur.read_uN::<LittleEndian>() with N = 8 * w
read_uint(cur, w, drain) ==
    IF cur.pos + w <= Len(cur.inner)
    THEN [cur |-> [cur EXCEPT !.pos = @ + w], v |-> Some(U(cur.inner, cur.pos, w))]
    ELSE [cur |-> IF drain THEN [cur EXCEPT !.pos = Len(cur.inner)] ELSE cur,
          v |-> None]

\* record.rs 72-78
read_addr(cur, flags, drain) ==
    IF ~Bit(flags, 0)
    THEN LET a == read_uint(cur, 4, drain)
         IN  IF a.v = None THEN a
             ELSE [a EXCEPT !.v = Some([kind |-> "V4", addr |-> a.v.v])]
    ELSE IF cur.pos + 16 <= Len(cur.inner)
         THEN [cur |-> [cur EXCEPT !.pos = @ + 16],
               v |-> Some([kind |-> "V6", addr |-> U128(cur.inner, cur.pos)])]
         ELSE [cur |-> IF drain THEN [cur EXCEPT !.pos = Len(cur.inner)] ELSE cur,
               v |-> None]

\* record.rs 80-86
read_pkt_or_byt(cur, flags, drain) ==
    IF ~Bit(flags, 1) THEN read_uint(cur, 4, drain) ELSE read_uint(cur, 8, drain)

\* record.rs 88-96 with the two widths exchanged
read_ext_widths_swapped(cur, emap, ext, drain) ==
    IF Contains(emap, ext) THEN read_uint(cur, 4, drain)
    ELSE IF Contains(emap, ext + 1) THEN read_uint(cur, 2, drain)
    ELSE [cur |-> cur, v |-> None]

\* record.rs 88-96: Err is None here, its only use being .ok()
read_ext(cur, emap, ext, drain) ==
    IF Contains(emap, ext) THEN read_uint(cur, 2, drain)
    ELSE IF Contains(emap, ext + 1) THEN read_uint(cur, 4, drain)
    ELSE [cur |-> cur, v |-> None]

\* record.rs 35-70: the 28 fixed bytes, the addresses and the counters are
\* read with `?`, the four optional fields with .ok().  The value is the
\* result and the position the cursor is left at.
new_record(hdr, data, ext, drain) ==
    IF Len(data) < 28
    THEN [result |-> Err("IoError"), pos |-> IF drain THEN Len(data) ELSE 0]
    ELSE
    LET flags == U(data, 0, 2)
        sa    == read_addr([inner |-> data, pos |-> 28], flags, drain)
        da    == read_addr(sa.cur, flags, drain)
        pk    == read_pkt_or_byt(da.cur, flags, drain)
        by    == read_pkt_or_byt(pk.cur, flags, drain)
    IN  IF sa.v = None THEN [result |-> Err("IoError"), pos |-> sa.cur.pos]
        ELSE IF da.v = None THEN [result |-> Err("IoError"), pos |-> da.cur.pos]
        ELSE IF pk.v = None THEN [result |-> Err("IoError"), pos |-> pk.cur.pos]
        ELSE IF by.v = None THEN [result |-> Err("IoError"), pos |-> by.cur.pos]
        ELSE
        LET input  == read_ext(by.cur, ext, 4, drain)
            output == read_ext(input.cur, ext, 4, drain)
            src_as == read_ext(output.cur, ext, 6, drain)
            dst_as == read_ext(src_as.cur, ext, 6, drain)
        IN  [result |-> Ok([kind            |-> "Record",
                            head            |-> hdr,
                            flags           |-> flags,
                            ext_map         |-> U(data, 2, 2),
                            msec_first      |-> U(data, 4, 2),
                            msec_last       |-> U(data, 6, 2),
                            first           |-> U(data, 8, 4),
                            last            |-> U(data, 12, 4),
                            fwd_status      |-> U(data, 16, 1),
                            tcp_flags       |-> U(data, 17, 1),
                            prot            |-> U(data, 18, 1),
                            tos             |-> U(data, 19, 1),
                            src_port        |-> U(data, 20, 2),
                            dst_port        |-> U(data, 22, 2),
                            exporter_sysid  |-> U(data, 24, 2),
                            bi_flow_dir     |-> U(data, 26, 1),
                            flow_end_reason |-> U(data, 27, 1),
                            src_addr        |-> sa.v.v,
                            dst_addr        |-> da.v.v,
                            packets         |-> pk.v.v,
                            bytes           |-> by.v.v,
                            input           |-> input.v,
                            output          |-> output.v,
                            src_as          |-> src_as.v,
                            dst_as          |-> dst_as.v]),
             pos |-> dst_as.cur.pos]

(***************************************************************************)
(* SpecRecord: one call of new_record on a payload and an id list.         *)
(***************************************************************************)
RECURSIVE Ascending(_, _)
\* the members of the set ids that are k or more, in ascending order
Ascending(ids, k) ==
    IF k > 8 THEN <<>>
    ELSE (IF k \in ids THEN <<k>> ELSE <<>>) \o Ascending(ids, k + 1)

\* the active lists: every choice among the ids 4 to 7, in ascending order,
\* one list out of order and one of other ids
ExtLists == {Ascending(ids, 4) : ids \in SUBSET {4, 5, 6, 7}} \cup {<<7, 4>>, <<3, 8>>}

\* the calls: the payload of the flag bits, whole or its last cut bytes off
RecordCalls ==
    [flags : 0..3, ext : ExtLists, cut : {0, 2, 9, 13, 17, 40}, drain : BOOLEAN]

RecordData(c) ==
    SubSeq(RecordPayload(c.flags), 1, Len(RecordPayload(c.flags)) - c.cut)

InitRecord ==
    /\ call \in RecordCalls
    /\ ret = Pending
    /\ pc = "record"
    /\ reader = None
    /\ header = None
    /\ stat_record = None
    /\ data_block = None
    /\ extensions = <<>>
    /\ exporters = <<>>
    /\ result = Pending
    /\ hist = None

\* new_record(header, data, &ext)
NewRecord ==
    /\ pc = "record"
    /\ ret = Pending
    /\ ret' = new_record([rtype |-> 10, size |-> 4 + Len(RecordData(call))],
                         RecordData(call), call.ext, call.drain)
    /\ UNCHANGED <<call, readerVars>>

NextRecord == NewRecord

SpecRecord == InitRecord /\ [][NextRecord]_vars

(***************************************************************************)
(* Claims about the Common Record decoder, checked under SpecRecord.       *)
(***************************************************************************)
\* the k-th 16-bit word of ExtTail, from 0
TailWord(k) == ExtTail[2 * k + 1] + 256 * ExtTail[2 * k + 2]

\* the bytes of the payload before ExtTail
FixedLen(flags) ==
    28 + (IF Bit(flags, 0) THEN 32 ELSE 8) + (IF Bit(flags, 1) THEN 16 ELSE 8)

\* C10: in a record decoded from a whole payload, input and output are the
\* next two 16-bit words if id 4 is active, else the next two 32-bit words
\* if id 5 is active, else absent; src_as and dst_as follow in the same way
\* under ids 6 and 7, whatever the choice for input and output was; with
\* the empty list all four are absent and no byte after the counters is
\* consumed.
C10_OptionalFields ==
    ret # Pending /\ call.cut = 0
    => LET in16 == Contains(call.ext, 4)
           in32 == ~in16 /\ Contains(call.ext, 5)
           as16 == Contains(call.ext, 6)
           as32 == ~as16 /\ Contains(call.ext, 7)
           k    == IF in16 THEN 2 ELSE IF in32 THEN 4 ELSE 0
           used == 2 * k + (IF as16 THEN 4 ELSE IF as32 THEN 8 ELSE 0)
           rec  == ret.result.rec
       IN  /\ ret.result.kind = "Ok"
           /\ rec.input = (IF in16 THEN Some(TailWord(0))
                           ELSE IF in32 THEN Some(TailWord(0) + 65536 * TailWord(1))
                           ELSE None)
           /\ rec.output = (IF in16 THEN Some(TailWord(1))
                            ELSE IF in32 THEN Some(TailWord(2) + 65536 * TailWord(3))
                            ELSE None)
           /\ rec.src_as = (IF as16 THEN Some(TailWord(k))
                            ELSE IF as32 THEN Some(TailWord(k) + 65536 * TailWord(k + 1))
                            ELSE None)
           /\ rec.dst_as = (IF as16 THEN Some(TailWord(k + 1))
                            ELSE IF as32
                                 THEN Some(TailWord(k + 2) + 65536 * TailWord(k + 3))
                            ELSE None)
           /\ ret.pos = FixedLen(call.flags) + used
           /\ call.ext = <<>> => /\ rec.input = None /\ rec.output = None
                                 /\ rec.src_as = None /\ rec.dst_as = None
                                 /\ ret.pos = FixedLen(call.flags)

\* C10 witness: under the list [4, 7] input and output are 16-bit and
\* src_as and dst_as are 32-bit, read after them
C10_Witness ==
    /\ ret # Pending
    /\ call.cut = 0
    /\ call.flags = 1
    /\ call.ext = <<4, 7>>
    /\ ret.result.kind = "Ok"
    /\ ret.result.rec.input = Some(17)
    /\ ret.result.rec.output = Some(34)
    /\ ret.result.rec.src_as = Some(51 + 65536 * 68)
    /\ ret.result.rec.dst_as = Some(85 + 65536 * 102)
    /\ ret.pos = 68 + 12

(***************************************************************************)
(* src/src/nfx_v3.rs: the sub-extension ids.                               *)
(***************************************************************************)
EXT_GENERIC_FLOW == 1

EXT_IPV4_FLOW == 2

EXT_IPV6_FLOW == 3

EXT_FLOW_MISC == 4

EXT_CNT_FLOW == 5

EXT_VLAN_FLOW == 6

EXT_AS_ROUTING == 7

EXT_BGP_NEXT_HOP_V4 == 8

EXT_BGP_NEXT_HOP_V6 == 9

EXT_IP_NEXT_HOP_V4 == 10

EXT_IP_NEXT_HOP_V6 == 11

EXT_IP_RECEIVED_V4 == 12

EXT_IP_RECEIVED_V6 == 13

EXT_SAMPLER_INFO == 18

EXT_IN_PAYLOAD == 29

EXT_NSEL_X_LATE_PORT == 22

EXT_MAC_ADDR == 15

EXT_LAYER2 == 38

EXT_MPLS == 14

EXT_TUN_V4 == 31

EXT_TUN_V6 == 32

(***************************************************************************)
(* src/src/nfx_v3.rs: RecordV3::new.  A typed sub-extension is a list of   *)
(* fields <<name, width, kind>> read one after the other from the bytes of *)
(* the sub-extension, each with `?`.                                       *)
(***************************************************************************)
\* n fields of 4 bytes named prefix1 .. prefixn
Labels(n) ==
    [i \in 1..n |-> <<"mpls_label_" \o ToString(i), 4, "int">>]

\* the match of RecordV3::new: the slot of the record and the fields of the
\* sub-extension id ext; no slot for an id without an arm
ExtLayout(ext) ==
    CASE ext = EXT_GENERIC_FLOW ->
           [slot |-> "generic_flow",
            fields |-> <<<<"msec_first", 8, "int">>, <<"msec_last", 8, "int">>,
                         <<"msec_received", 8, "int">>, <<"in_packets", 8, "int">>,
                         <<"in_bytes", 8, "int">>, <<"src_port", 2, "int">>,
                         <<"dst_port", 2, "int">>, <<"proto", 1, "int">>,
                         <<"tcp_flags", 1, "int">>, <<"fwd_status", 1, "int">>,
                         <<"src_tos", 1, "int">>>>]
      [] ext = EXT_IPV4_FLOW ->
           [slot |-> "ipv4_flow",
            fields |-> <<<<"src_addr", 4, "int">>, <<"dst_addr", 4, "int">>>>]
      [] ext = EXT_IPV6_FLOW ->
           [slot |-> "ipv6_flow",
            fields |-> <<<<"src_addr", 16, "u128">>, <<"dst_addr", 16, "u128">>>>]
      [] ext = EXT_FLOW_MISC ->
           [slot |-> "flow_misc",
            fields |-> <<<<"input", 4, "int">>, <<"output", 4, "int">>,
                         <<"src_mask", 1, "int">>, <<"dst_mask", 1, "int">>,
                         <<"dir", 1, "int">>, <<"dst_tos", 1, "int">>,
                         <<"bi_flow_dir", 1, "int">>, <<"flow_end_reason", 1, "int">>,
                         <<"rev_tcp_flags", 1, "int">>, <<"fill", 1, "int">>>>]
      [] ext = EXT_CNT_FLOW ->
           [slot |-> "cnt_flow",
            fields |-> <<<<"flows", 8, "int">>, <<"out_packets", 8, "int">>,
                         <<"out_bytes", 8, "int">>>>]
      [] ext = EXT_VLAN_FLOW ->
           [slot |-> "vlan",
            fields |-> <<<<"src_vlan", 4, "int">>, <<"dst_vlan", 4, "int">>>>]
      [] ext = EXT_AS_ROUTING ->
           [slot |-> "as_routing",
            fields |-> <<<<"src_as", 4, "int">>, <<"dst_as", 4, "int">>>>]
      [] ext = EXT_SAMPLER_INFO ->
           [slot |-> "sampler_info",
            fields |-> <<<<"selector_id", 8, "int">>, <<"sysid", 2, "int">>,
                         <<"align", 2, "int">>>>]
      [] ext = EXT_NSEL_X_LATE_PORT ->
           [slot |-> "nsel_xlate_port",
            fields |-> <<<<"src_port", 2, "int">>, <<"dst_port", 2, "int">>>>]
      [] ext = EXT_BGP_NEXT_HOP_V4 ->
           [slot |-> "bgp_next_hop_ipv4", fields |-> <<<<"ip", 4, "int">>>>]
      [] ext = EXT_BGP_NEXT_HOP_V6 ->
           [slot |-> "bgp_next_hop_ipv6", fields |-> <<<<"ip", 16, "u128">>>>]
      [] ext = EXT_IP_NEXT_HOP_V4 ->
           [slot |-> "ip_next_hop_ipv4", fields |-> <<<<"ip", 4, "int">>>>]
      [] ext = EXT_IP_NEXT_HOP_V6 ->
           [slot |-> "ip_next_hop_ipv6", fields |-> <<<<"ip", 16, "u128">>>>]
      [] ext = EXT_IP_RECEIVED_V4 ->
           [slot |-> "ip_received_ipv4", fields |-> <<<<"ip", 4, "int">>>>]
      [] ext = EXT_IP_RECEIVED_V6 ->
           [slot |-> "ip_received_ipv6", fields |-> <<<<"ip", 16, "u128">>>>]
      [] ext = EXT_MAC_ADDR ->
           [slot |-> "mac_address",
            fields |-> <<<<"in_src_mac", 8, "mac">>, <<"out_dst_mac", 8, "mac">>,
                         <<"in_dst_mac", 8, "mac">>, <<"out_src_mac", 8, "mac">>>>]
      [] ext = EXT_LAYER2 ->
           [slot |-> "layer2",
            fields |-> <<<<"vlan_id", 2, "int">>, <<"customer_vlan_id", 2, "int">>,
                         <<"post_vlan_id", 2, "int">>,
                         <<"post_customer_vlan_id", 2, "int">>,
                         <<"ingress", 4, "int">>, <<"egress", 4, "int">>,
                         <<"vx_lan", 8, "int">>, <<"ether_type", 2, "int">>,
                         <<"ip_version", 1, "int">>, <<"fill", 1, "int">>>>]
      [] ext = EXT_MPLS ->
           [slot |-> "mpls", fields |-> Labels(10)]
      [] ext = EXT_TUN_V4 ->
           [slot |-> "tun_ipv4",
            fields |-> <<<<"src_addr", 4, "int">>, <<"dst_addr", 4, "int">>,
                         <<"proto", 1, "int">>>>]
      [] ext = EXT_TUN_V6 ->
           [slot |-> "tun_ipv6",
            fields |-> <<<<"src_addr", 16, "u128">>, <<"dst_addr", 16, "u128">>,
                         <<"proto", 1, "int">>>>]
      [] OTHER -> [slot |-> "", fields |-> <<>>]

RECURSIVE FieldsLen(_, _)
\* the bytes the first n fields take
FieldsLen(fields, n) == IF n = 0 THEN 0 ELSE FieldsLen(fields, n - 1) + fields[n][2]

\* nfx_v3.rs 463-474: the low six bytes of the u64, most significant first
mac_from_u64(d, off) == [i \in 1..6 |-> d[off + 7 - i]]

\* the struct of the fields read from ext_data, None when a read fails
read_struct(ext_data, fields) ==
    IF FieldsLen(fields, Len(fields)) > Len(ext_data) THEN None
    ELSE Some([name \in {fields[i][1] : i \in 1..Len(fields)} |->
                 LET i   == CHOOSE j \in 1..Len(fields) : fields[j][1] = name
                     off == FieldsLen(fields, i - 1)
                 IN  CASE fields[i][3] = "int"  -> U(ext_data, off, fields[i][2])
                       [] fields[i][3] = "u128" -> U128(ext_data, off)
                       [] fields[i][3] = "mac"  -> mac_from_u64(ext_data, off)])

\* the typed sub-structures of a RecordV3
Slots ==
    {"generic_flow", "ipv4_flow", "ipv6_flow", "flow_misc", "cnt_flow", "vlan",
     "as_routing", "sampler_info", "nsel_xlate_port", "bgp_next_hop_ipv4",
     "bgp_next_hop_ipv6", "ip_next_hop_ipv4", "ip_next_hop_ipv6",
     "ip_received_ipv4", "ip_received_ipv6", "in_payload", "mac_address",
     "layer2", "mpls", "tun_ipv4", "tun_ipv6"}

\* nfx_v3.rs 286-291 with the declared size taken for the size of the data
ext_end_size_without_header(pos, size) == pos + 4 + size

\* nfx_v3.rs 286-291: the cursor after the 4 bytes of the element header and
\* the size - 4 bytes of the element data, the element header being at pos
ext_end(pos, size) == pos + size

\* an arm that leaves a sub-structure already set as it is
set_sub_structure_keep_first(record, slot, st) ==
    IF record[slot] = None THEN [record EXCEPT ![slot] = st] ELSE record

\* nfx_v3.rs 295-452: every arm assigns record.<slot> = Some(..)
set_sub_structure(record, slot, st) == [record EXCEPT ![slot] = st]

RECURSIVE element_loop(_, _, _, _, _, _)
\* nfx_v3.rs 281-456: the loop over the sub-extensions from element cnt on,
\* the cursor at pos; at lists the cursor position before each element read
element_loop(hdr, data, pos, cnt, record, at) ==
    IF cnt >= record.head.num_elements
    THEN [result |-> Ok(record), pos |-> pos, at |-> at]
    ELSE IF pos + 4 > Len(data)
    THEN [result |-> Err("IoError"), pos |-> pos, at |-> at]
    ELSE
    LET ext  == U(data, pos, 2)
        size == U(data, pos + 2, 2)
    IN  IF size < 4
        THEN [result |-> Panic("size - 4"), pos |-> pos + 4, at |-> Append(at, pos)]
        ELSE IF pos + size > Len(data)
        THEN [result |-> Err("IoError"), pos |-> pos + 4, at |-> Append(at, pos)]
        ELSE
        LET ext_data == SubSeq(data, pos + 5, pos + size)
            layout   == ExtLayout(ext)
            at1      == Append(at, pos)
        IN  IF ext = EXT_IN_PAYLOAD
            THEN IF hdr.size < 4
                 THEN [result |-> Panic("header.size - 4"), pos |-> ext_end(pos, size), at |-> at1]
                 ELSE IF hdr.size - 4 > Len(ext_data)
                 THEN [result |-> Err("IoError"), pos |-> ext_end(pos, size), at |-> at1]
                 ELSE element_loop(hdr, data, ext_end(pos, size), cnt + 1,
                        [record EXCEPT !.in_payload = Some(SubSeq(ext_data, 1, hdr.size - 4))],
                        at1)
            ELSE IF layout.slot = ""
            THEN element_loop(hdr, data, ext_end(pos, size), cnt + 1, record, at1)
            ELSE LET st == read_struct(ext_data, layout.fields)
                 IN  IF st = None
                     THEN [result |-> Err("IoError"), pos |-> ext_end(pos, size), at |-> at1]
                     ELSE element_loop(hdr, data, ext_end(pos, size), cnt + 1,
                                       set_sub_structure(record, layout.slot, st), at1)

\* nfx_v3.rs 243-459: RecordV3::new(header, data)
RecordV3_new(hdr, data) ==
    IF Len(data) < 8 THEN [result |-> Err("IoError"), pos |-> 0, at |-> <<>>]
    ELSE
    LET head == [header       |-> hdr,
                 num_elements |-> U(data, 0, 2),
                 engine_type  |-> U(data, 2, 1),
                 engine_id    |-> U(data, 3, 1),
                 exporter_id  |-> U(data, 4, 2),
                 flags        |-> U(data, 6, 1),
                 nf_version   |-> U(data, 7, 1)]
        record == [f \in Slots \cup {"kind", "head"} |->
                     IF f = "kind" THEN "RecordV3" ELSE IF f = "head" THEN head ELSE None]
    IN  element_loop(hdr, data, 8, 0, record, <<>>)

(***************************************************************************)
(* SpecV3: one call of RecordV3::new on a payload of sub-extensions.       *)
(***************************************************************************)
MaxElems == 3

\* a sub-extension: id, size with its own 4 bytes, data
Elem(ext, ext_data) == LeBytes(ext, 2) \o LeBytes(4 + Len(ext_data), 2) \o ext_data

\* the sub-extensions the payloads are made of, by name: five well-formed
\* typed ones, one of an id without an arm (0xff, size 12), an AS routing
\* element too short for its fields and one whose size is below 4
ElemBytes(name) ==
    CASE name = "generic"  -> Elem(EXT_GENERIC_FLOW,
                                LeBytes(70000, 8) \o LeBytes(70060, 8)
                                \o LeBytes(70100, 8) \o LeBytes(1000, 8)
                                \o LeBytes(150000, 8) \o LeBytes(443, 2)
                                \o LeBytes(51000, 2) \o <<6, 27, 0, 0>>)
      [] name = "ipv4"     -> Elem(EXT_IPV4_FLOW,
                                LeBytes(167772161, 4) \o LeBytes(167772162, 4))
      [] name = "as"       -> Elem(EXT_AS_ROUTING, LeBytes(64512, 4) \o LeBytes(64513, 4))
      [] name = "as2"      -> Elem(EXT_AS_ROUTING, LeBytes(65001, 4) \o LeBytes(65002, 4))
      [] name = "mac"      -> Elem(EXT_MAC_ADDR,
                                <<6, 5, 4, 3, 2, 1, 0, 0>> \o <<16, 15, 14, 13, 12, 11, 0, 0>>
                                \o <<26, 25, 24, 23, 22, 21, 0, 0>>
                                \o <<36, 35, 34, 33, 32, 31, 0, 0>>)
      [] name = "payload"  -> Elem(EXT_IN_PAYLOAD, <<222, 173, 190>>)
      [] name = "unknown"  -> Elem(255, <<1, 2, 3, 4, 5, 6, 7, 8>>)
      [] name = "short_as" -> Elem(EXT_AS_ROUTING, LeBytes(64512, 4))
      [] name = "size2"    -> LeBytes(EXT_CNT_FLOW, 2) \o LeBytes(2, 2)

WellFormedElems == {"generic", "ipv4", "as", "as2", "mac", "payload", "unknown"}

ElemNames == WellFormedElems \cup {"short_as", "size2"}

\* the payload of a RecordV3 that declares num_elements sub-extensions and
\* holds elems
V3Data(num_elements, elems) ==
    LeBytes(num_elements, 2) \o <<1, 2>> \o LeBytes(3, 2) \o <<0, 9>>
    \o Concat([i \in 1..Len(elems) |-> ElemBytes(elems[i])])

\* the calls: the sub-extensions, how many more the record declares, how
\* many bytes are cut off its end
V3Calls ==
    [elems : UNION {[1..n -> ElemNames] : n \in 0..MaxElems},
     extra : {0, 1}, cut : {0, 2}]

V3CallData(c) ==
    LET all == V3Data(Len(c.elems) + c.extra, c.elems)
    IN  SubSeq(all, 1, Len(all) - c.cut)

\* the record header block.rs hands over with the payload
V3Header(data) == [rtype |-> 11, size |-> 4 + Len(data)]

InitV3 ==
    /\ call \in V3Calls
    /\ ret = Pending
    /\ pc = "v3"
    /\ reader = None
    /\ header = None
    /\ stat_record = None
    /\ data_block = None
    /\ extensions = <<>>
    /\ exporters = <<>>
    /\ result = Pending
    /\ hist = None

\* RecordV3::new(header, data)
NewRecordV3 ==
    /\ pc = "v3"
    /\ ret = Pending
    /\ ret' = RecordV3_new(V3Header(V3CallData(call)), V3CallData(call))
    /\ UNCHANGED <<call, readerVars>>

NextV3 == NewRecordV3

SpecV3 == InitV3 /\ [][NextV3]_vars

(***************************************************************************)
(* Claims about RecordV3::new, checked under SpecV3.                       *)
(***************************************************************************)
\* the call without its sub-extensions of the unrecognised id
WithoutUnknown(c) ==
    LET elems == SelectSeq(c.elems, LAMBDA e : e # "unknown")
        data  == V3Data(Len(elems), elems)
    IN  RecordV3_new(V3Header(data), data)

\* C12: a sub-extension of an unrecognised id (0xff, size 12) moves the
\* cursor by exactly its 12 bytes, changes no typed sub-structure and makes
\* no error: the call ends as it does without that sub-extension, with the
\* same sub-structures.
C12_UnknownExtensionSkipped ==
    /\ ret # Pending
    /\ call.cut = 0
    /\ call.extra = 0
    /\ Contains(call.elems, "unknown")
    => /\ \A i \in 1..Len(ret.at) :
            call.elems[i] = "unknown"
            => (IF i < Len(ret.at) THEN ret.at[i + 1] ELSE ret.pos) = ret.at[i] + 12
       /\ ret.result.kind = WithoutUnknown(call).result.kind
       /\ ret.result.kind = "Ok"
          => \A slot \in Slots :
                ret.result.rec[slot] = WithoutUnknown(call).result.rec[slot]

\* C12 witness: generic flow, unknown, AS routing decoded, the unknown
\* sub-extension standing at 60 and the next at 72
C12_Witness ==
    /\ ret # Pending
    /\ call = [elems |-> <<"generic", "unknown", "as">>, extra |-> 0, cut |-> 0]
    /\ ret.result.kind = "Ok"
    /\ ret.at = <<8, 60, 72>>
    /\ ret.pos = 84
    /\ ret.result.rec.generic_flow.v.in_bytes = 150000
    /\ ret.result.rec.as_routing = Some([src_as |-> 64512, dst_as |-> 64513])
    /\ ret.result.rec.mac_address = None

\* the slot of the record the named sub-extension is decoded into ("" when
\* its id has no arm)
SlotOf(name) == ExtLayout(U(ElemBytes(name), 0, 2)).slot

\* the record decoded from the named sub-extension alone
Alone(name) ==
    LET data == V3Data(1, <<name>>)
    IN  RecordV3_new(V3Header(data), data).result.rec

\* C24: when a record of whole sub-extensions repeats a known id, every
\* sub-structure holds the value of the last sub-extension of its id, and
\* the sub-structures of ids that do not occur stay empty.
C24_LastOccurrenceWins ==
    /\ ret # Pending
    /\ call.cut = 0
    /\ call.extra = 0
    /\ ret.result.kind = "Ok"
    /\ \E i, j \in 1..Len(call.elems) :
          i < j /\ SlotOf(call.elems[i]) = SlotOf(call.elems[j]) /\ SlotOf(call.elems[i]) # ""
    => \A slot \in Slots \ {"in_payload"} :
          LET occ == {i \in 1..Len(call.elems) : SlotOf(call.elems[i]) = slot}
          IN  ret.result.rec[slot] =
                IF occ = {} THEN None
                ELSE Alone(call.elems[CHOOSE i \in occ : \A k \in occ : k <= i])[slot]

\* AS routing occurs twice with different values around an IPv4 element:
\* the record holds the second one, and the IPv4 addresses
C24_Witness ==
    /\ ret # Pending
    /\ call = [elems |-> <<"as", "ipv4", "as2">>, extra |-> 0, cut |-> 0]
    /\ ret.result.kind = "Ok"
    /\ ret.result.rec.as_routing = Some([src_as |-> 65001, dst_as |-> 65002])
    /\ ret.result.rec.ipv4_flow # None
    /\ ret.result.rec.generic_flow = None

\* C17: a RecordV3 of well-formed sub-extensions with a raw-payload one
\* (id 0x1d, size 7) decodes, and in_payload is the 3 bytes of its data.
C17_InPayloadDecoded ==
    /\ ret # Pending
    /\ call.cut = 0
    /\ call.extra = 0
    /\ \A i \in 1..Len(call.elems) : call.elems[i] \in WellFormedElems
    /\ Contains(call.elems, "payload")
    => /\ ret.result.kind = "Ok"
       /\ ret.result.rec.in_payload = Some(<<222, 173, 190>>)

(***************************************************************************)
(* src/src/block.rs: DataBlock, the records of one decompressed block.     *)
(***************************************************************************)
TYPE_EXTENSION_MAP == 2

TYPE_EXPORTER_INFO == 7

TYPE_EXPORTER_STAT == 8

TYPE_LEGACY_SAMPLER == 9

TYPE_COMMON_RECORD == 10

TYPE_RECORD_V3 == 11

TYPE_IDENT == 32769

TYPE_STAT == 32770

\* the names of the 18 u64 fields of StatRecordV2, in the order they are read
StatFieldsV2 ==
    <<"flows", "bytes", "packets", "flows_tcp", "flows_udp", "flows_icmp",
      "flows_other", "bytes_tcp", "bytes_udp", "bytes_icmp", "bytes_other",
      "packets_tcp", "packets_udp", "packets_icmp", "packets_other",
      "first_seen", "last_seen", "sequence_failure">>

\* StatRecordV2::from with first_seen and last_seen read in the other order
StatRecordV2_from_seen_swapped(value) ==
    IF Len(value) < 8 * Len(StatFieldsV2) THEN Panic("StatRecordV2::from")
    ELSE [kind |-> "StatRecordV2"] @@
         [f \in {StatFieldsV2[i] : i \in 1..Len(StatFieldsV2)} |->
            LET i == CHOOSE j \in 1..Len(StatFieldsV2) : StatFieldsV2[j] = f
                k == IF i = 16 THEN 17 ELSE IF i = 17 THEN 16 ELSE i
            IN  U(value, 8 * (k - 1), 8)]

\* nffilev2.rs 60-83: every field is read with unwrap(), a value shorter
\* than 144 bytes aborts
StatRecordV2_from(value) ==
    IF Len(value) < 8 * Len(StatFieldsV2) THEN Panic("StatRecordV2::from")
    ELSE [kind |-> "StatRecordV2"] @@
         [f \in {StatFieldsV2[i] : i \in 1..Len(StatFieldsV2)} |->
            LET i == CHOOSE j \in 1..Len(StatFieldsV2) : StatFieldsV2[j] = f
            IN  U(value, 8 * (i - 1), 8)]

\* a variant of RecordKind carrying v
RecordKind(variant, v) == [kind |-> variant, v |-> v]

Unimplemented == [kind |-> "Unimplemented"]

\* variant(v.unwrap()) for a decoder that returns v or aborts
Unwrapped(variant, v) ==
    IF v.kind = "Panic" THEN v ELSE RecordKind(variant, v)

\* variant(r.unwrap()) for a decoder that returns Ok or Err
UnwrappedResult(variant, r) ==
    IF r.kind = "Panic" THEN r
    ELSE IF r.kind = "Err" THEN Panic("unwrap on Err")
    ELSE RecordKind(variant, r.rec)

\* block.rs 51-75.  The result of the payload read is dropped: after a
\* failed read the buffer keeps its zeros or holds the bytes that were left
\* (fill), and the decoder has or has not moved to its end (drain).
read_record_kind(decoder, hdr, ext, drain, fill) ==
    IF hdr.size < 4 THEN [decoder |-> decoder, kind |-> Panic("size - 4")]
    ELSE
    LET rd == read_exact(decoder, hdr.size - 4, drain)
        record_data ==
            IF rd.ok THEN rd.buf
            ELSE IF fill
                 THEN decoder.rest \o Zeros(hdr.size - 4 - Len(decoder.rest))
                 ELSE Zeros(hdr.size - 4)
        kind ==
            CASE hdr.rtype = TYPE_EXTENSION_MAP ->
                   Unwrapped("ExtensionMap", read_extension_map(hdr, record_data))
              [] hdr.rtype = TYPE_EXPORTER_INFO ->
                   Unwrapped("ExporterInfo", read_exporter_record(hdr, record_data))
              [] hdr.rtype = TYPE_EXPORTER_STAT -> Unimplemented
              [] hdr.rtype = TYPE_LEGACY_SAMPLER ->
                   Unwrapped("SamplerV0", read_samplerv0_record(hdr, record_data))
              [] hdr.rtype = TYPE_COMMON_RECORD ->
                   UnwrappedResult("Record",
                                   new_record(hdr, record_data, ext, drain).result)
              [] hdr.rtype = TYPE_RECORD_V3 ->
                   UnwrappedResult("RecordV3", RecordV3_new(hdr, record_data).result)
              [] hdr.rtype = TYPE_IDENT -> RecordKind("Ident", record_data)
              [] hdr.rtype = TYPE_STAT ->
                   Unwrapped("Stat", StatRecordV2_from(record_data))
              [] OTHER -> Unimplemented
    IN  [decoder |-> rd.r, kind |-> kind]

\* DataBlock::read_record with the failed read of the record header unwrapped
\* as lib.rs does
DataBlock_read_record_unwrap_header(self, ext, drain, fill) ==
    LET rh == read_exact(self.decoder, 4, drain)
    IN  IF ~rh.ok
        THEN [self |-> [self EXCEPT !.decoder = rh.r],
              result |-> Panic("record_header.unwrap")]
        ELSE
        LET record_header == [rtype |-> U(rh.buf, 0, 2), size |-> U(rh.buf, 2, 2)]
            o == read_record_kind(rh.r, record_header, ext, drain, fill)
        IN  [self |-> [self EXCEPT !.decoder = o.decoder],
             result |-> IF o.kind.kind = "Panic" THEN o.kind ELSE Some(o.kind)]

\* block.rs 77-93: None when the decoder cannot supply the four bytes of a
\* record header
DataBlock_read_record(self, ext, drain, fill) ==
    LET rh == read_exact(self.decoder, 4, drain)
    IN  IF ~rh.ok
        THEN [self |-> [self EXCEPT !.decoder = rh.r], result |-> None]
        ELSE
        LET record_header == [rtype |-> U(rh.buf, 0, 2), size |-> U(rh.buf, 2, 2)]
            o == read_record_kind(rh.r, record_header, ext, drain, fill)
        IN  [self |-> [self EXCEPT !.decoder = o.decoder],
             result |-> IF o.kind.kind = "Panic" THEN o.kind ELSE Some(o.kind)]

(***************************************************************************)
(* SpecBlock: a DataBlock over the decompressed bytes of one block, and    *)
(* read_record called on it again and again with one extension list.       *)
(***************************************************************************)
MaxBlockRecs == 2

\* consecutive sentinels counted up to this many
MaxNones == 2

BlockRecNames ==
    {"map46", "exporter", "sampler", "common", "commoncut", "expstat", "v3",
     "v3short", "ident", "stat", "stat17", "shortstat", "nbar", "shortmap", "size2"}

\* the records of the block, the bytes cut off its end, the bytes that follow
\* the last record, and the caller's extension list
Blocks ==
    [recs : UNION {[1..n -> BlockRecNames] : n \in 0..MaxBlockRecs},
     cut  : {0, 1, 30},
     tail : {<<>>, <<0, 0>>},
     ext  : {<<>>, <<4, 6>>}]

BlockData(bx) ==
    LET whole == Concat([i \in 1..Len(bx.recs) |-> RecordBytes(bx.recs[i])])
    IN  SubSeq(whole, 1, IF Len(whole) > bx.cut THEN Len(whole) - bx.cut ELSE 0)
        \o bx.tail

\* DataBlock::new(header, decoder), block.rs 44-49
InitBlock ==
    /\ \E bx \in Blocks : /\ reader = [src |-> bx, pos |-> 0, rest |-> BlockData(bx)]
                          /\ extensions = bx.ext
                          /\ data_block = [num_records |-> Len(bx.recs),
                                           size |-> Len(BlockData(bx)),
                                           id |-> 2, flags |-> 0]
    /\ hist = [taken |-> <<>>, avail |-> 0, tookBlock |-> FALSE, recHdr |-> None,
               nones |-> 0]
    /\ pc = "block"
    /\ header = None
    /\ stat_record = None
    /\ exporters = <<>>
    /\ result = Pending
    /\ call = NoCall
    /\ ret = Pending

\* block.read_record(&ext)
BlockReadRecord ==
    /\ pc = "block"
    /\ \E drain \in BOOLEAN, fill \in BOOLEAN :
       \E o \in {DataBlock_read_record([decoder |-> reader, _header |-> data_block],
                                       extensions, drain, fill)} :
          /\ reader' = o.self.decoder
          /\ result' = o.result
          /\ pc' = IF o.result.kind = "Panic" THEN "aborted" ELSE "block"
          /\ hist' = [taken  |-> SubSeq(reader.rest, 1,
                                        Len(reader.rest) - Len(o.self.decoder.rest)),
                      avail  |-> Len(reader.rest),
                      tookBlock |-> FALSE,
                      recHdr |-> IF Len(reader.rest) >= 4
                                 THEN Some([rtype |-> U(reader.rest, 0, 2),
                                            size  |-> U(reader.rest, 2, 2)])
                                 ELSE None,
                      nones  |-> IF o.result # None THEN 0
                                 ELSE IF hist.nones < MaxNones THEN hist.nones + 1
                                 ELSE hist.nones]
    /\ UNCHANGED <<header, stat_record, data_block, extensions, exporters, call, ret>>

NextBlock == BlockReadRecord

SpecBlock == InitBlock /\ [][NextBlock]_vars

(***************************************************************************)
(* Claims about DataBlock, checked under SpecBlock.                        *)
(***************************************************************************)
\* the variant the type-id table gives for a record type
TableKind(rtype) ==
    CASE rtype = 2     -> "ExtensionMap"
      [] rtype = 7     -> "ExporterInfo"
      [] rtype = 8     -> "ExporterStats"
      [] rtype = 9     -> "SamplerV0"
      [] rtype = 10    -> "Record"
      [] rtype = 11    -> "RecordV3"
      [] rtype = 32769 -> "Ident"
      [] rtype = 32770 -> "Stat"
      [] OTHER         -> "Unimplemented"

\* C13: every record read_record returns is of the variant the type-id table
\* gives for the type id of its header: 2 Extension Map, 7 Exporter Info,
\* 8 Exporter Stats, 9 legacy Sampler, 10 Common Record, 11 RecordV3,
\* 0x8001 Ident, 0x8002 Stat, anything else Unimplemented.
C13_DispatchTable ==
    pc = "block" /\ result.kind = "Some"
    => result.v.kind = TableKind(hist.recHdr.v.rtype)

\* C23 as stated: a Stat record with a payload of 17 u64 (136 bytes) decodes
\* into a v2 stat record.
C23_StatOf17Fields ==
    LastRecordBytes = RecordBytes("stat17")
    => result.kind = "Some" /\ result.v.kind = "Stat"

\* C23: a Stat record with a payload of 18 u64 (144 bytes) decodes into the
\* v2 stat record, the fields taken in order: the three totals, the flow,
\* byte and packet counts per protocol, first-seen, last-seen,
\* sequence-failure.
C23_StatOf18Fields ==
    LastRecordBytes = RecordBytes("stat")
    => result = Some(RecordKind("Stat",
          [kind |-> "StatRecordV2",
           flows |-> 101, bytes |-> 102, packets |-> 103,
           flows_tcp |-> 104, flows_udp |-> 105, flows_icmp |-> 106,
           flows_other |-> 107,
           bytes_tcp |-> 108, bytes_udp |-> 109, bytes_icmp |-> 110,
           bytes_other |-> 111,
           packets_tcp |-> 112, packets_udp |-> 113, packets_icmp |-> 114,
           packets_other |-> 115,
           first_seen |-> 116, last_seen |-> 117, sequence_failure |-> 118]))

\* a call read the whole 144-byte Stat record and returned it
C23_Witness ==
    /\ LastRecordBytes = RecordBytes("stat")
    /\ result.kind = "Some"
    /\ result.v.kind = "Stat"
    /\ result.v.v.sequence_failure = 118

\* C20: a call made with fewer than 4 bytes left in the block returns None,
\* and after a None every later call returns None.
C20_SentinelWhenExhausted ==
    [][/\ pc = "block" /\ Len(reader.rest) < 4 => result' = None
       /\ result = None => result' = None]_vars

\* two calls in a row returned None on a block that held records and ends
\* with two bytes, less than a record header
C20_Witness ==
    /\ pc = "block"
    /\ result = None
    /\ hist.nones = MaxNones
    /\ reader.src.recs # <<>>
    /\ Len(reader.rest) = 2

(***************************************************************************)
(* SpecMap: one call of read_extension_map (src/src/nfx.rs) on a payload.  *)
(***************************************************************************)
MaxIds == 3

\* the payloads: map_id, extension_size, the ids, then possibly one odd
\* byte; keep is the number of leading bytes the payload is cut down to
MapCalls ==
    [map_id : {1, 258},
     ids    : UNION {[1..n -> {0, 4, 6, 256}] : n \in 0..MaxIds},
     odd    : {<<>>, <<7>>},
     keep   : {2, 100}]

MapData(c) ==
    LET all == LeBytes(c.map_id, 2) \o LeBytes(2 * Len(c.ids), 2)
               \o Concat([i \in 1..Len(c.ids) |-> LeBytes(c.ids[i], 2)]) \o c.odd
    IN  SubSeq(all, 1, IF Len(all) < c.keep THEN Len(all) ELSE c.keep)

InitMap ==
    /\ call \in MapCalls
    /\ ret = Pending
    /\ pc = "map"
    /\ reader = None
    /\ header = None
    /\ stat_record = None
    /\ data_block = None
    /\ extensions = <<>>
    /\ exporters = <<>>
    /\ result = Pending
    /\ hist = None

\* read_extension_map(header, record_data)
ReadExtensionMap ==
    /\ pc = "map"
    /\ ret = Pending
    /\ ret' = read_extension_map([rtype |-> 2, size |-> 4 + Len(MapData(call))],
                                 MapData(call))
    /\ UNCHANGED <<call, readerVars>>

NextMap == ReadExtensionMap

SpecMap == InitMap /\ [][NextMap]_vars

\* C21: on a payload of at least the two leading u16, read_extension_map
\* returns them as map_id and extension_size and, as ex_id, every following
\* u16 in stream order except the zeros; an odd last byte is ignored.
C21_ExtensionMapIds ==
    ret # Pending /\ call.keep = 100
    => /\ ret.kind = "ExtensionMap"
       /\ ret.map_id = call.map_id
       /\ ret.extension_size = 2 * Len(call.ids)
       /\ ret.ex_id = SelectSeq(call.ids, LAMBDA id : id # 0)

\* a payload with a zero between two ids, a zero at the end and an odd byte
C21_Witness ==
    /\ ret # Pending
    /\ call = [map_id |-> 258, ids |-> <<4, 0, 256>>, odd |-> <<7>>, keep |-> 100]
    /\ ret.ex_id = <<4, 256>>

(***************************************************************************)
(* SpecExporter: one call of read_exporter_record (src/src/exporter.rs).   *)
(***************************************************************************)
\* the highest address-family tag tried
MaxFamily == 11

\* the fields of the payload: the address is a little-endian u128 given by
\* its bits 0..31 (lo), 64..95 (v4) and 96..127 (hi); keep is the number of
\* leading bytes the payload is cut down to
ExporterCalls ==
    [sa : 0..MaxFamily, lo : {0, 5}, v4 : {0, 167772417}, hi : {0, 8193},
     id : {1, 77}, keep : {21, 100}]

ExporterData(c) ==
    LET all == LeBytes(9, 4)
               \o LeBytes(c.lo, 4) \o LeBytes(0, 4) \o LeBytes(c.v4, 4) \o LeBytes(c.hi, 4)
               \o LeBytes(c.sa, 2) \o LeBytes(3, 2) \o LeBytes(c.id, 2)
    IN  SubSeq(all, 1, IF Len(all) < c.keep THEN Len(all) ELSE c.keep)

InitExporter ==
    /\ call \in ExporterCalls
    /\ ret = Pending
    /\ pc = "exporter"
    /\ reader = None
    /\ header = None
    /\ stat_record = None
    /\ data_block = None
    /\ extensions = <<>>
    /\ exporters = <<>>
    /\ result = Pending
    /\ hist = None

\* read_exporter_record(header, record_data)
ReadExporterRecord ==
    /\ pc = "exporter"
    /\ ret = Pending
    /\ ret' = read_exporter_record([rtype |-> 7, size |-> 4 + Len(ExporterData(call))],
                                   ExporterData(call))
    /\ UNCHANGED <<call, readerVars>>

NextExporter == ReadExporterRecord

SpecExporter == InitExporter /\ [][NextExporter]_vars

\* the record holds the v4 address and no v6 address
OnlyV4(rec, c) ==
    /\ rec.kind = "ExporterInfoRecordV1"
    /\ rec.v4_addr = Some(c.v4)
    /\ rec.v6_addr = None

\* the record holds the v6 address and no v4 address
OnlyV6(rec, c) ==
    /\ rec.kind = "ExporterInfoRecordV1"
    /\ rec.v4_addr = None
    /\ rec.v6_addr = Some(<<c.hi, c.v4, 0, c.lo>>)

\* C22: a whole Exporter Info payload decodes to a record with the v4 address
\* alone under tag 2, to a record with the v6 address alone under tag 10,
\* and to the error UnexpectedAddressFamily under any other tag.
C22_OneAddressOrError ==
    ret # Pending /\ call.keep = 100
    => CASE call.sa = AF_INET  -> OnlyV4(ret, call)
         [] call.sa = AF_INET6 -> OnlyV6(ret, call)
         [] OTHER -> ret = Err("UnexpectedAddressFamily")

(***************************************************************************)
(* src/src/nffilev1.rs, src/src/nffilev2.rs: the file headers built from   *)
(* the bytes that follow magic and version.                                *)
(***************************************************************************)
\* nffilev1.rs 42-58: magic and version are written as literals; the result
\* of the read of ident is dropped, so that on a short body the array keeps
\* its zeros or holds the bytes that were left (fill)
NfFileHeaderV1_from(value, fill) ==
    IF Len(value) < 8 THEN Panic("NfFileHeaderV1::from")
    ELSE [magic      |-> NFFILE_MAGIC,
          version    |-> 1,
          flags      |-> U(value, 0, 4),
          num_blocks |-> U(value, 4, 4),
          ident      |-> IF Len(value) >= 136 THEN SubSeq(value, 9, 136)
                         ELSE IF fill
                         THEN SubSeq(value, 9, Len(value)) \o Zeros(136 - Len(value))
                         ELSE Zeros(128)]

\* nffilev2.rs 38-56: magic and version are written as literals, every field
\* is read with unwrap()
NfFileHeaderV2_from(value) ==
    IF Len(value) < 36 THEN Panic("NfFileHeaderV2::from")
    ELSE [magic           |-> NFFILE_MAGIC,
          version         |-> 1,
          nf_version      |-> U(value, 0, 4),
          created         |-> U(value, 4, 8),
          compression     |-> U(value, 12, 1),
          encryption      |-> U(value, 13, 1),
          appendix_blocks |-> U(value, 14, 2),
          unused          |-> U(value, 16, 4),
          off_appendix    |-> U(value, 20, 8),
          block_size      |-> U(value, 28, 4),
          num_blocks      |-> U(value, 32, 4)]

(***************************************************************************)
(* SpecHeader: a header body of the layout its version selects, turned     *)
(* into a header by the From impl of that layout.                          *)
(***************************************************************************)
\* the highest compression id written into a version-2 body
MaxCompression == 3

\* a and b are the first two u32 of the body (flags and num_blocks in
\* layout 1, nf_version and the low half of created in layout 2); keep is
\* the number of leading bytes the body is cut down to
HeaderCalls ==
    [version : {1, 2}, a : {0, 1, 7}, b : {0, 3, 300},
     compression : 0..MaxCompression, keep : {4, 20, 200}]

HeaderBody(c) ==
    LET all == IF c.version = 1
               THEN LeBytes(c.a, 4) \o LeBytes(c.b, 4) \o <<110, 102>> \o Zeros(126)
               ELSE LeBytes(c.a, 4) \o LeBytes(c.b, 8) \o <<c.compression, 0>>
                    \o LeBytes(1, 2) \o LeBytes(0, 4) \o LeBytes(4096, 8)
                    \o LeBytes(1048576, 4) \o LeBytes(2, 4)
    IN  SubSeq(all, 1, IF Len(all) < c.keep THEN Len(all) ELSE c.keep)

InitHeader ==
    /\ call \in HeaderCalls
    /\ ret = Pending
    /\ pc = "header"
    /\ reader = None
    /\ header = None
    /\ stat_record = None
    /\ data_block = None
    /\ extensions = <<>>
    /\ exporters = <<>>
    /\ result = Pending
    /\ hist = None

\* NfFileHeaderV1::from(body)
FromV1 ==
    /\ pc = "header"
    /\ ret = Pending
    /\ call.version = 1
    /\ \E fill \in BOOLEAN : ret' = NfFileHeaderV1_from(HeaderBody(call), fill)
    /\ UNCHANGED <<call, readerVars>>

\* NfFileHeaderV2::from(body)
FromV2 ==
    /\ pc = "header"
    /\ ret = Pending
    /\ call.version = 2
    /\ ret' = NfFileHeaderV2_from(HeaderBody(call))
    /\ UNCHANGED <<call, readerVars>>

NextHeader == FromV1 \/ FromV2

SpecHeader == InitHeader /\ [][NextHeader]_vars

\* C28: a header built from a whole body reports the magic 0xa50c and the
\* version of the layout it was built from: 1 for a version-1 body, 2 for a
\* version-2 body.
C28_VersionOfLayout ==
    ret # Pending /\ call.keep = 200
    => /\ ret.magic = 42252
       /\ ret.version = call.version

====
